---- MODULE Spec2Model ----
(***************************************************************************)
(* A model of mirrorfs: the FileSystem / Node layer of src/fs.go and       *)
(* src/node.go, the helpers errno and pathExists, and the part of the host *)
(* (the mirror tree, its inodes, the open file descriptions) that the      *)
(* handlers act on through package os.                                     *)
(*                                                                         *)
(* A path is the sequence of its components ("/mir/a" is <<"mir","a">>),   *)
(* so a trailing slash or a doubled slash does not exist in the model.     *)
(* File contents are sequences of small integers, 0 being the byte a hole  *)
(* reads as.                                                               *)
(***************************************************************************)
EXTENDS Integers, Sequences, FiniteSets, TLC

VARIABLES
    fs,     \* the FileSystem: [mount, mirror]; its root Node is nodes[1]
    host,   \* the host: [tree, inode, fds, nfd]
    nodes,  \* the Node objects the bridge holds: nodes[i] = [path, file]
    now,    \* the wall clock; it ticks once with every call the bridge starts
    hist,   \* the three most recent handler calls, the latest last
    tasks   \* the requests in flight, when handlers interleave (ConcSpec)

vars == <<fs, host, nodes, now, hist, tasks>>

\* The clock stops the model after MaxTime ticks.
MaxTime == 3

Min(a, b) == IF a <= b THEN a ELSE b
Max(a, b) == IF a >= b THEN a ELSE b
Front(s) == SubSeq(s, 1, Len(s) - 1)
Last(s) == s[Len(s)]
IsPrefix(p, q) == Len(p) <= Len(q) /\ SubSeq(q, 1, Len(p)) = p
Restrict(f, S) == [x \in S |-> f[x]]

(***************************************************************************)
(* package path/filepath, on rooted paths                                  *)
(***************************************************************************)
RECURSIVE CleanOnto(_, _)
CleanOnto(stack, rest) ==
    IF rest = <<>> THEN stack
    ELSE LET c == Head(rest) IN
         IF c = "." THEN CleanOnto(stack, Tail(rest))
         ELSE IF c = ".."
              THEN CleanOnto(IF stack = <<>> THEN <<>> ELSE Front(stack), Tail(rest))
              ELSE CleanOnto(Append(stack, c), Tail(rest))

\* filepath.Clean: "." dropped, ".." removes the component before it.
Clean(p) == CleanOnto(<<>>, p)

\* filepath.Join(p, q): the two joined, then cleaned.
Join(p, q) == Clean(p \o q)

CommonLen(b, t) ==
    LET ks == {k \in 0..Min(Len(b), Len(t)) : SubSeq(b, 1, k) = SubSeq(t, 1, k)}
    IN  CHOOSE k \in ks : \A j \in ks : j <= k

\* filepath.Rel(base, targ): "." when they are the same path, else one ".."
\* for each component of base past the common prefix, then the rest of targ.
Rel(base, targ) ==
    LET b == Clean(base)
        t == Clean(targ)
        k == CommonLen(b, t)
    IN  IF b = t THEN <<".">>
        ELSE [i \in 1..(Len(b) - k) |-> ".."] \o SubSeq(t, k + 1, Len(t))

\* A faulty mirrorPath: the Node's whole path is joined to the mirror root.
mirrorPath_JoinsMountPath(n) == Join(fs.mirror, n.path)

\* Node.mirrorPath: the mirror root joined with the path relative to the mount.
mirrorPath(n) == Join(fs.mirror, Rel(fs.mount, n.path))

(***************************************************************************)
(* errors                                                                  *)
(***************************************************************************)
\* os.IsExist, os.IsNotExist, os.IsPermission on the host's error numbers.
IsExist(e) == e \in {"EEXIST", "ENOTEMPTY"}
IsNotExist(e) == e = "ENOENT"
IsPermission(e) == e \in {"EACCES", "EPERM"}

\* A faulty errno: an error of no known kind is passed on as it is.
errno_PassesUnknown(e) ==
    IF IsExist(e) THEN "EEXIST"
    ELSE IF IsNotExist(e) THEN "ENOENT"
    ELSE IF IsPermission(e) THEN "EPERM"
    ELSE e

\* A faulty errno: a permission error is one more unknown error.
errno_NoPermission(e) ==
    IF IsExist(e) THEN "EEXIST"
    ELSE IF IsNotExist(e) THEN "ENOENT"
    ELSE "EIO"

\* errno: a host error as a FUSE error number; fuse.DefaultErrno is EIO.
errno(e) ==
    IF IsExist(e) THEN "EEXIST"
    ELSE IF IsNotExist(e) THEN "ENOENT"
    ELSE IF IsPermission(e) THEN "EPERM"
    ELSE "EIO"

(***************************************************************************)
(* the host: path resolution and stat                                      *)
(***************************************************************************)
Exists(h, p) == p \in DOMAIN h.tree
Inode(h, p) == h.inode[h.tree[p]]
IsDir(h, p) == Exists(h, p) /\ Inode(h, p).kind = "dir"
Children(h, p) == {q \in DOMAIN h.tree : Len(q) = Len(p) + 1 /\ IsPrefix(p, q)}
Below(h, p) == {q \in DOMAIN h.tree : IsPrefix(p, q)}

\* The error of resolving a path that has no entry: ENOTDIR when it passes
\* through a file, ENOENT otherwise.
RECURSIVE ResolveErr(_, _)
ResolveErr(h, p) ==
    IF p = <<>> THEN "ENOENT"
    ELSE IF Exists(h, Front(p))
         THEN (IF IsDir(h, Front(p)) THEN "ENOENT" ELSE "ENOTDIR")
         ELSE ResolveErr(h, Front(p))

\* The error of creating an entry at p, which has none: its directory must be one.
ParentErr(h, p) ==
    IF p # <<>> /\ IsDir(h, Front(p)) THEN "OK" ELSE ResolveErr(h, p)

NoInfo ==
    [ino |-> 0, dir |-> FALSE, size |-> 0, uid |-> 0, gid |-> 0, perm |-> 0,
     mtime |-> 0, atime |-> 0]

\* os.Stat: f is the failure the host injects ("OK": none).
Stat(h, p, f) ==
    IF f # "OK" THEN [err |-> f, fi |-> NoInfo]
    ELSE IF ~Exists(h, p) THEN [err |-> ResolveErr(h, p), fi |-> NoInfo]
    ELSE LET i == Inode(h, p) IN
         [err |-> "OK",
          fi |-> [ino |-> h.tree[p], dir |-> i.kind = "dir", size |-> Len(i.data),
                  uid |-> i.uid, gid |-> i.gid, perm |-> i.perm,
                  mtime |-> i.mtime, atime |-> i.atime]]

\* The lowest inode number not in use.
FreshIno(h) ==
    CHOOSE k \in 1..(Cardinality(DOMAIN h.inode) + 1) :
        k \notin DOMAIN h.inode /\ \A j \in 1..(k - 1) : j \in DOMAIN h.inode

\* An inode lives while a name or an open file description refers to it.
Reap(h) ==
    LET live == {h.tree[p] : p \in DOMAIN h.tree} \cup {h.fds[d].ino : d \in DOMAIN h.fds}
    IN  [h EXCEPT !.inode = Restrict(h.inode, live)]

Touch(h, p, t) == [h EXCEPT !.inode[h.tree[p]].mtime = t]

\* The identity new entries get: the ids the daemon runs as.
Proc == [uid |-> 0, gid |-> 0]

(***************************************************************************)
(* the host: the calls of package os the handlers make.  Each takes the    *)
(* failure f the host injects into it ("OK": none; "EACCES", "EIO", ...    *)
(* stand for a permission the daemon lacks, a failing disk), and t, the    *)
(* time of the call.  An injected failure leaves the host as it was.       *)
(***************************************************************************)
NewInode(kind, perm, t) ==
    [kind |-> kind, data |-> <<>>, uid |-> Proc.uid, gid |-> Proc.gid,
     perm |-> perm, mtime |-> t, atime |-> t]

TouchParent(h, p, t) ==
    IF p # <<>> /\ Exists(h, Front(p)) THEN Touch(h, Front(p), t) ELSE h

\* The access an open file description grants, from the flags of the open.
Acc(fl) == IF "RDWR" \in fl THEN "rw" ELSE IF "WRONLY" \in fl THEN "w" ELSE "r"

Bind(h, p, fl) ==
    LET fd == h.nfd + 1 IN
    [err |-> "OK", fd |-> fd,
     h |-> [h EXCEPT !.nfd = fd,
                     !.fds = (fd :> [ino |-> h.tree[p], acc |-> Acc(fl),
                                     app |-> "APPEND" \in fl]) @@ h.fds]]

\* os.OpenFile(p, flags, perm): [err, fd, h].  A file object is never reused:
\* each successful open makes the next one, h.nfd + 1.
OpenFile(h, p, fl, perm, t, f) ==
    IF f # "OK" THEN [err |-> f, fd |-> 0, h |-> h]
    ELSE IF Exists(h, p)
    THEN IF {"CREAT", "EXCL"} \subseteq fl THEN [err |-> "EEXIST", fd |-> 0, h |-> h]
         ELSE IF IsDir(h, p) /\ Acc(fl) # "r" THEN [err |-> "EISDIR", fd |-> 0, h |-> h]
         ELSE IF "TRUNC" \in fl /\ Acc(fl) # "r" /\ ~IsDir(h, p)
              THEN Bind([h EXCEPT !.inode[h.tree[p]].data = <<>>,
                                  !.inode[h.tree[p]].mtime = t], p, fl)
              ELSE Bind(h, p, fl)
    ELSE IF "CREAT" \in fl
    THEN IF ParentErr(h, p) # "OK" THEN [err |-> ParentErr(h, p), fd |-> 0, h |-> h]
         ELSE LET i == FreshIno(h)
                  h1 == [h EXCEPT !.tree = (p :> i) @@ h.tree,
                                  !.inode = (i :> NewInode("file", perm, t)) @@ h.inode]
              IN  Bind(TouchParent(h1, p, t), p, fl)
    ELSE [err |-> ResolveErr(h, p), fd |-> 0, h |-> h]

\* (*os.File).ReadAt(b, off) with len(b) = size: [err, n, data].  io.EOF ("EOF")
\* when fewer than size bytes are there; a closed file object gives os.ErrClosed,
\* a nil one (fd 0) os.ErrInvalid.
ReadAt(h, fd, off, size, f) ==
    IF fd = 0 THEN [err |-> "EINVAL", n |-> 0, data |-> <<>>]
    ELSE IF fd \notin DOMAIN h.fds THEN [err |-> "ECLOSED", n |-> 0, data |-> <<>>]
    ELSE IF size = 0 THEN [err |-> "OK", n |-> 0, data |-> <<>>]
    ELSE IF f # "OK" THEN [err |-> f, n |-> 0, data |-> <<>>]
    ELSE IF h.fds[fd].acc = "w" THEN [err |-> "EBADF", n |-> 0, data |-> <<>>]
    ELSE IF h.inode[h.fds[fd].ino].kind = "dir" THEN [err |-> "EISDIR", n |-> 0, data |-> <<>>]
    ELSE LET d == h.inode[h.fds[fd].ino].data
             got == SubSeq(d, off + 1, Min(off + size, Len(d)))
         IN  [err |-> IF Len(got) < size THEN "EOF" ELSE "OK", n |-> Len(got), data |-> got]

\* The content after data x is written at offset off: a hole reads as zeros.
Overlay(d, off, x) ==
    [i \in 1..Max(Len(d), off + Len(x)) |->
        IF i > off /\ i <= off + Len(x) THEN x[i - off]
        ELSE IF i <= Len(d) THEN d[i] ELSE 0]

\* (*os.File).WriteAt(x, off): [err, n, h].  On a file opened with O_APPEND the
\* result depends on the Go release and the platform, am says which: "reject"
\* (WriteAt refuses, Go 1.11 and later), "end" (pwrite appends, Linux),
\* "offset" (pwrite honours the offset).
WriteAt(h, fd, off, x, t, f, am) ==
    IF fd = 0 THEN [err |-> "EINVAL", n |-> 0, h |-> h]
    ELSE IF fd \notin DOMAIN h.fds THEN [err |-> "ECLOSED", n |-> 0, h |-> h]
    ELSE IF h.fds[fd].app /\ am = "reject" THEN [err |-> "EAPPEND", n |-> 0, h |-> h]
    ELSE IF x = <<>> THEN [err |-> "OK", n |-> 0, h |-> h]
    ELSE IF f # "OK" THEN [err |-> f, n |-> 0, h |-> h]
    ELSE IF h.fds[fd].acc = "r" THEN [err |-> "EBADF", n |-> 0, h |-> h]
    ELSE IF h.inode[h.fds[fd].ino].kind = "dir" THEN [err |-> "EBADF", n |-> 0, h |-> h]
    ELSE LET i == h.fds[fd].ino
             at == IF h.fds[fd].app /\ am = "end" THEN Len(h.inode[i].data) ELSE off
         IN  [err |-> "OK", n |-> Len(x),
              h |-> [h EXCEPT !.inode[i].data = Overlay(h.inode[i].data, at, x),
                              !.inode[i].mtime = t]]

\* (*os.File).Sync.
Sync(h, fd, f) ==
    IF fd = 0 THEN "EINVAL" ELSE IF fd \notin DOMAIN h.fds THEN "ECLOSED" ELSE f

\* (*os.File).Close: [err, h].  The descriptor is gone even when close fails.
Close(h, fd, f) ==
    IF fd = 0 THEN [err |-> "EINVAL", h |-> h]
    ELSE IF fd \notin DOMAIN h.fds THEN [err |-> "ECLOSED", h |-> h]
    ELSE [err |-> f,
          h |-> Reap([h EXCEPT !.fds = Restrict(h.fds, DOMAIN h.fds \ {fd})])]

Resize(d, size) == [i \in 1..size |-> IF i <= Len(d) THEN d[i] ELSE 0]

\* os.Truncate(p, size): [err, h].
Truncate(h, p, size, t, f) ==
    IF f # "OK" THEN [err |-> f, h |-> h]
    ELSE IF ~Exists(h, p) THEN [err |-> ResolveErr(h, p), h |-> h]
    ELSE IF IsDir(h, p) THEN [err |-> "EISDIR", h |-> h]
    ELSE [err |-> "OK",
          h |-> [h EXCEPT !.inode[h.tree[p]].data = Resize(@, size),
                          !.inode[h.tree[p]].mtime = t]]

\* os.Chown(p, uid, gid): [err, h].
Chown(h, p, uid, gid, f) ==
    IF f # "OK" THEN [err |-> f, h |-> h]
    ELSE IF ~Exists(h, p) THEN [err |-> ResolveErr(h, p), h |-> h]
    ELSE [err |-> "OK",
          h |-> [h EXCEPT !.inode[h.tree[p]].uid = uid, !.inode[h.tree[p]].gid = gid]]

\* os.Chmod(p, mode): [err, h].
Chmod(h, p, perm, f) ==
    IF f # "OK" THEN [err |-> f, h |-> h]
    ELSE IF ~Exists(h, p) THEN [err |-> ResolveErr(h, p), h |-> h]
    ELSE [err |-> "OK", h |-> [h EXCEPT !.inode[h.tree[p]].perm = perm]]

\* os.Chtimes(p, atime, mtime): [err, h].
Chtimes(h, p, atime, mtime, f) ==
    IF f # "OK" THEN [err |-> f, h |-> h]
    ELSE IF ~Exists(h, p) THEN [err |-> ResolveErr(h, p), h |-> h]
    ELSE [err |-> "OK",
          h |-> [h EXCEPT !.inode[h.tree[p]].atime = atime,
                          !.inode[h.tree[p]].mtime = mtime]]

\* os.Mkdir(p, perm): [err, h].
osMkdir(h, p, perm, t, f) ==
    IF f # "OK" THEN [err |-> f, h |-> h]
    ELSE IF Exists(h, p) THEN [err |-> "EEXIST", h |-> h]
    ELSE IF ParentErr(h, p) # "OK" THEN [err |-> ParentErr(h, p), h |-> h]
    ELSE LET i == FreshIno(h) IN
         [err |-> "OK",
          h |-> TouchParent([h EXCEPT !.tree = (p :> i) @@ h.tree,
                                      !.inode = (i :> NewInode("dir", perm, t)) @@ h.inode],
                            p, t)]

\* os.Remove(p): unlink, then rmdir; [err, h].
osRemove(h, p, t, f) ==
    IF f # "OK" THEN [err |-> f, h |-> h]
    ELSE IF ~Exists(h, p) THEN [err |-> ResolveErr(h, p), h |-> h]
    ELSE IF IsDir(h, p) /\ Children(h, p) # {} THEN [err |-> "ENOTEMPTY", h |-> h]
    ELSE [err |-> "OK",
          h |-> Reap(TouchParent([h EXCEPT !.tree = Restrict(h.tree, DOMAIN h.tree \ {p})],
                                 p, t))]

\* The tree with the entry at src, and all below it, moved to dst.
Moved(tree, src, dst) ==
    LET gone == {q \in DOMAIN tree : IsPrefix(src, q)} \cup {dst}
        come == {dst \o SubSeq(q, Len(src) + 1, Len(q)) :
                     q \in {q \in DOMAIN tree : IsPrefix(src, q)}}
    IN  [q \in (DOMAIN tree \ gone) \cup come |->
            IF q \in come THEN tree[src \o SubSeq(q, Len(dst) + 1, Len(q))] ELSE tree[q]]

\* os.Rename(src, dst): [err, h].  Go refuses a destination that is a directory
\* before it asks the host; the host replaces a file at dst atomically, and
\* does nothing when src and dst are the same entry or links to one file.
osRename(h, src, dst, t, f) ==
    IF f # "OK" THEN [err |-> f, h |-> h]
    ELSE IF IsDir(h, dst)
    THEN [err |-> IF Exists(h, src) THEN "EEXIST" ELSE ResolveErr(h, src), h |-> h]
    ELSE IF ~Exists(h, src) THEN [err |-> ResolveErr(h, src), h |-> h]
    ELSE IF ~Exists(h, dst) /\ ParentErr(h, dst) # "OK" THEN [err |-> ParentErr(h, dst), h |-> h]
    ELSE IF src = dst \/ (Exists(h, dst) /\ h.tree[src] = h.tree[dst])
    THEN [err |-> "OK", h |-> h]
    ELSE IF IsDir(h, src) /\ IsPrefix(src, dst) THEN [err |-> "EINVAL", h |-> h]
    ELSE IF IsDir(h, src) /\ Exists(h, dst) THEN [err |-> "ENOTDIR", h |-> h]
    ELSE LET h1 == [h EXCEPT !.tree = Moved(h.tree, src, dst)]
         IN  [err |-> "OK", h |-> Reap(TouchParent(TouchParent(h1, src, t), dst, t))]

\* The names the model uses, in the order ioutil.ReadDir sorts them.
Alphabet == <<"a", "b", "c", "l">>

\* ioutil.ReadDir(p): [err, infos], the entries sorted by name.
ReadDir(h, p, f) ==
    IF f # "OK" THEN [err |-> f, infos |-> <<>>]
    ELSE IF ~Exists(h, p) THEN [err |-> ResolveErr(h, p), infos |-> <<>>]
    ELSE IF ~IsDir(h, p) THEN [err |-> "ENOTDIR", infos |-> <<>>]
    ELSE LET names == SelectSeq(Alphabet, LAMBDA x : Exists(h, Append(p, x)))
         IN  [err |-> "OK",
              infos |-> [k \in 1..Len(names) |->
                            [name |-> names[k],
                             fi |-> Stat(h, Append(p, names[k]), "OK").fi]]]

(***************************************************************************)
(* the Node layer.  A handler is an operator from the host h and the Node  *)
(* table ns to [err, h, ns, out, paths]: the error it returns ("OK": nil), *)
(* the host and the Nodes after it, what it hands back, and the host paths *)
(* it passed to package os.  flt[c] is the failure the host injects into   *)
(* the handler's call c; t is the time of the call.                        *)
(***************************************************************************)
Calls ==
    {"stat", "truncate", "chown", "chmod", "chtimes", "stat2", "open", "read",
     "write", "sync", "close", "mkdir", "remove", "rename", "readdir"}
NoFault == [c \in Calls |-> "OK"]
Fail(c, e) == [NoFault EXCEPT ![c] = e]

\* FileSystem.makeNode: a Node for the path, its handle nil.
makeNode(path) == [path |-> path, file |-> 0]

\* Node.info: the stat of the Node's mirror path.
info(h, n, f) == Stat(h, mirrorPath(n), f)

\* pathExists: true unless the stat fails with "does not exist".
pathExists(h, p, f) == ~IsNotExist(Stat(h, p, f).err)

\* fuseType: Directory or File, from the host's file-type bit.
\* A faulty fuseType: every entry is reported as a regular file.
fuseType_AlwaysFile(fi) == "DT_File"

fuseType(fi) == IF fi.dir THEN "DT_Dir" ELSE "DT_File"

ZeroAttr ==
    [inode |-> 0, size |-> 0, uid |-> 0, gid |-> 0, dir |-> FALSE, perm |-> 0,
     atime |-> 0, mtime |-> 0]

\* Node.Attr, as Setattr calls it: [err, attr], attr untouched on failure.
AttrOf(h, n, attr, t, f) ==
    LET st == info(h, n, f) IN
    IF st.err # "OK" THEN [err |-> errno(st.err), attr |-> attr]
    ELSE [err |-> "OK",
          attr |-> [inode |-> st.fi.ino, size |-> st.fi.size, uid |-> st.fi.uid,
                    gid |-> st.fi.gid, dir |-> st.fi.dir, perm |-> st.fi.perm,
                    atime |-> t, mtime |-> st.fi.mtime]]

\* The mirror directory as the mount finds it: a file a, a directory b, a file b/a.
InitHost(mirror) ==
    [tree |-> (mirror :> 1) @@ (Append(mirror, "a") :> 2) @@ (Append(mirror, "b") :> 3)
              @@ (mirror \o <<"b", "a">> :> 4),
     inode |-> (1 :> [NewInode("dir", 493, 0) EXCEPT !.data = <<>>])
               @@ (2 :> [NewInode("file", 420, 0) EXCEPT !.data = <<1, 2>>])
               @@ (3 :> NewInode("dir", 493, 0))
               @@ (4 :> [NewInode("file", 420, 0) EXCEPT !.data = <<3>>]),
     fds |-> <<>>,
     nfd |-> 0]

\* A faulty Attr: it answers from what the mirror had when it was mounted.
DoAttr_MountTimeView(h, ns, n, t, flt) ==
    LET a == AttrOf(InitHost(fs.mirror), ns[n], ZeroAttr, t, flt["stat"]) IN
    [err |-> a.err, h |-> h, ns |-> ns, out |-> [attr |-> a.attr],
     paths |-> {mirrorPath(ns[n])}]

\* Node.Attr.
DoAttr(h, ns, n, t, flt) ==
    LET a == AttrOf(h, ns[n], ZeroAttr, t, flt["stat"]) IN
    [err |-> a.err, h |-> h, ns |-> ns, out |-> [attr |-> a.attr],
     paths |-> {mirrorPath(ns[n])}]

\* A faulty Setattr: the size is taken for a field it does not support.
DoSetattr_SkipsTruncate(h, ns, n, req, t, flt) ==
    LET mp == mirrorPath(ns[n])
        s0 == info(h, ns[n], flt["stat"])
        a == AttrOf(h, ns[n], ZeroAttr, t, flt["stat2"])
    IN  IF s0.err # "OK"
        THEN [err |-> errno(s0.err), h |-> h, ns |-> ns, out |-> [attr |-> ZeroAttr],
              paths |-> {mp}]
        ELSE [err |-> a.err, h |-> h, ns |-> ns, out |-> [attr |-> a.attr], paths |-> {mp}]

\* A faulty Setattr: the response carries the mode the request asked for.
DoSetattr_EchoesRequest(h, ns, n, req, t, flt) ==
    LET mp == mirrorPath(ns[n])
        s0 == info(h, ns[n], flt["stat"])
        tr == IF "size" \in req.valid /\ ~s0.fi.dir
              THEN Truncate(h, mp, req.size, t, flt["truncate"])
              ELSE [err |-> "OK", h |-> h]
        cm == IF "mode" \in req.valid
              THEN Chmod(tr.h, mp, req.perm, flt["chmod"]).h
              ELSE tr.h
        a == AttrOf(cm, ns[n], ZeroAttr, t, flt["stat2"])
    IN  IF s0.err # "OK" \/ tr.err # "OK"
        THEN [err |-> errno(IF s0.err # "OK" THEN s0.err ELSE tr.err), h |-> tr.h,
              ns |-> ns, out |-> [attr |-> ZeroAttr], paths |-> {mp}]
        ELSE [err |-> a.err, h |-> cm, ns |-> ns,
              out |-> [attr |-> IF "mode" \in req.valid
                                THEN [a.attr EXCEPT !.perm = req.perm] ELSE a.attr],
              paths |-> {mp}]

\* One of the four changes of Node.Setattr, made on the host h for the request
\* req, s0 being the stat Setattr took first: [err, h], err the error Setattr
\* returns for it.
Change(field, h, mp, req, s0, t, flt) ==
    CASE field = "size" ->
            IF "size" \in req.valid /\ ~s0.fi.dir
            THEN Truncate(h, mp, req.size, t, flt["truncate"])
            ELSE [err |-> "OK", h |-> h]
      [] field = "owner" ->
            IF {"uid", "gid"} \cap req.valid # {}
            THEN Chown(h, mp, IF "uid" \in req.valid THEN req.uid ELSE s0.fi.uid,
                       IF "gid" \in req.valid THEN req.gid ELSE s0.fi.gid, flt["chown"])
            ELSE [err |-> "OK", h |-> h]
      [] field = "mode" ->
            [err |-> "OK",
             h |-> IF "mode" \in req.valid
                   THEN Chmod(h, mp, req.perm, flt["chmod"]).h ELSE h]
      [] field = "times" ->
            [err |-> "OK",
             h |-> IF {"atime", "atimenow", "mtime", "mtimenow"} \cap req.valid # {}
                   THEN Chtimes(h, mp,
                                IF "atimenow" \in req.valid THEN t
                                ELSE IF "atime" \in req.valid THEN req.atime
                                ELSE s0.fi.atime,
                                IF "mtimenow" \in req.valid THEN t
                                ELSE IF "mtime" \in req.valid THEN req.mtime
                                ELSE s0.fi.mtime,
                                flt["chtimes"]).h
                   ELSE h]

\* The changes made one after the other in the given order, up to the first
\* that returns an error.
RECURSIVE Changes(_, _, _, _, _, _, _)
Changes(order, h, mp, req, s0, t, flt) ==
    IF order = <<>> THEN [err |-> "OK", h |-> h]
    ELSE LET c == Change(Head(order), h, mp, req, s0, t, flt) IN
         IF c.err # "OK" THEN c
         ELSE Changes(Tail(order), c.h, mp, req, s0, t, flt)

\* The order in which Node.Setattr makes its changes.
SetattrOrder == <<"size", "owner", "mode", "times">>

\* A faulty Setattr: a request that sets the owner does not get its mode set.
DoSetattr_OwnerOrMode(h, ns, n, req, t, flt) ==
    LET mp == mirrorPath(ns[n])
        s0 == info(h, ns[n], flt["stat"])
        to == IF {"uid", "gid"} \cap req.valid # {}
              THEN <<"size", "owner", "times">> ELSE SetattrOrder
        ch == Changes(to, h, mp, req, s0, t, flt)
        a == AttrOf(ch.h, ns[n], ZeroAttr, t, flt["stat2"])
    IN  IF s0.err # "OK"
        THEN [err |-> errno(s0.err), h |-> h, ns |-> ns, out |-> [attr |-> ZeroAttr],
              paths |-> {mp}]
        ELSE IF ch.err # "OK"
        THEN [err |-> errno(ch.err), h |-> ch.h, ns |-> ns, out |-> [attr |-> ZeroAttr],
              paths |-> {mp}]
        ELSE [err |-> a.err, h |-> ch.h, ns |-> ns, out |-> [attr |-> a.attr],
              paths |-> {mp}]

\* A faulty Setattr: a request with a field Setattr does not support is refused.
DoSetattr_RefusesUnsupported(h, ns, n, req, t, flt) ==
    LET mp == mirrorPath(ns[n])
        s0 == info(h, ns[n], flt["stat"])
        ch == Changes(SetattrOrder, h, mp, req, s0, t, flt)
        a == AttrOf(ch.h, ns[n], ZeroAttr, t, flt["stat2"])
    IN  IF s0.err # "OK"
        THEN [err |-> errno(s0.err), h |-> h, ns |-> ns, out |-> [attr |-> ZeroAttr],
              paths |-> {mp}]
        ELSE IF req.valid \ {"size", "uid", "gid", "mode", "atime", "atimenow", "mtime",
                             "mtimenow"} # {}
        THEN [err |-> "EIO", h |-> h, ns |-> ns, out |-> [attr |-> ZeroAttr],
              paths |-> {mp}]
        ELSE IF ch.err # "OK"
        THEN [err |-> errno(ch.err), h |-> ch.h, ns |-> ns, out |-> [attr |-> ZeroAttr],
              paths |-> {mp}]
        ELSE [err |-> a.err, h |-> ch.h, ns |-> ns, out |-> [attr |-> a.attr],
              paths |-> {mp}]

\* A faulty Setattr: the failure of chmod is returned as that of chown is.
DoSetattr_ReturnsChmodError(h, ns, n, req, t, flt) ==
    LET mp == mirrorPath(ns[n])
        bad(e, h1) == [err |-> errno(e), h |-> h1, ns |-> ns,
                       out |-> [attr |-> ZeroAttr], paths |-> {mp}]
        s0 == info(h, ns[n], flt["stat"])
    IN
    IF s0.err # "OK" THEN bad(s0.err, h)
    ELSE
    LET tr == IF "size" \in req.valid /\ ~s0.fi.dir
              THEN Truncate(h, mp, req.size, t, flt["truncate"])
              ELSE [err |-> "OK", h |-> h]
    IN
    IF tr.err # "OK" THEN bad(tr.err, tr.h)
    ELSE
    LET uid == IF "uid" \in req.valid THEN req.uid ELSE s0.fi.uid
        gid == IF "gid" \in req.valid THEN req.gid ELSE s0.fi.gid
        co == IF {"uid", "gid"} \cap req.valid # {}
              THEN Chown(tr.h, mp, uid, gid, flt["chown"])
              ELSE [err |-> "OK", h |-> tr.h]
    IN
    IF co.err # "OK" THEN bad(co.err, co.h)
    ELSE
    LET cm == IF "mode" \in req.valid
              THEN Chmod(co.h, mp, req.perm, flt["chmod"])
              ELSE [err |-> "OK", h |-> co.h]
    IN
    IF cm.err # "OK" THEN bad(cm.err, cm.h)
    ELSE
    LET atime == IF "atimenow" \in req.valid THEN t
                 ELSE IF "atime" \in req.valid THEN req.atime ELSE s0.fi.atime
        mtime == IF "mtimenow" \in req.valid THEN t
                 ELSE IF "mtime" \in req.valid THEN req.mtime ELSE s0.fi.mtime
        ct == IF {"atime", "atimenow", "mtime", "mtimenow"} \cap req.valid # {}
              THEN Chtimes(cm.h, mp, atime, mtime, flt["chtimes"]).h
              ELSE cm.h
        a == AttrOf(ct, ns[n], ZeroAttr, t, flt["stat2"])
    IN  [err |-> a.err, h |-> ct, ns |-> ns, out |-> [attr |-> a.attr], paths |-> {mp}]

\* Node.Setattr.  req.valid holds the names of the fields that are present.
DoSetattr(h, ns, n, req, t, flt) ==
    LET mp == mirrorPath(ns[n])
        bad(e, h1) == [err |-> errno(e), h |-> h1, ns |-> ns,
                       out |-> [attr |-> ZeroAttr], paths |-> {mp}]
        s0 == info(h, ns[n], flt["stat"])
    IN
    IF s0.err # "OK" THEN bad(s0.err, h)
    ELSE
    LET tr == IF "size" \in req.valid /\ ~s0.fi.dir
              THEN Truncate(h, mp, req.size, t, flt["truncate"])
              ELSE [err |-> "OK", h |-> h]
    IN
    IF tr.err # "OK" THEN bad(tr.err, tr.h)
    ELSE
    LET uid == IF "uid" \in req.valid THEN req.uid ELSE s0.fi.uid
        gid == IF "gid" \in req.valid THEN req.gid ELSE s0.fi.gid
        co == IF {"uid", "gid"} \cap req.valid # {}
              THEN Chown(tr.h, mp, uid, gid, flt["chown"])
              ELSE [err |-> "OK", h |-> tr.h]
    IN
    IF co.err # "OK" THEN bad(co.err, co.h)
    ELSE
    LET cm == IF "mode" \in req.valid
              THEN Chmod(co.h, mp, req.perm, flt["chmod"]).h
              ELSE co.h
        atime == IF "atimenow" \in req.valid THEN t
                 ELSE IF "atime" \in req.valid THEN req.atime ELSE s0.fi.atime
        mtime == IF "mtimenow" \in req.valid THEN t
                 ELSE IF "mtime" \in req.valid THEN req.mtime ELSE s0.fi.mtime
        ct == IF {"atime", "atimenow", "mtime", "mtimenow"} \cap req.valid # {}
              THEN Chtimes(cm, mp, atime, mtime, flt["chtimes"]).h
              ELSE cm
        a == AttrOf(ct, ns[n], ZeroAttr, t, flt["stat2"])
    IN  [err |-> a.err, h |-> ct, ns |-> ns, out |-> [attr |-> a.attr], paths |-> {mp}]

\* A faulty Lookup: a Node handed out before for the path is handed out again.
DoLookup_Reuses(h, ns, n, name, flt) ==
    LET node == makeNode(Join(ns[n].path, <<name>>))
        mp == mirrorPath(node)
        had == {j \in DOMAIN ns : ns[j].path = node.path}
    IN  IF ~pathExists(h, mp, flt["stat"])
        THEN [err |-> "ENOENT", h |-> h, ns |-> ns, out |-> [node |-> 0], paths |-> {mp}]
        ELSE IF had # {}
        THEN [err |-> "OK", h |-> h, ns |-> ns,
              out |-> [node |-> CHOOSE j \in had : TRUE], paths |-> {mp}]
        ELSE [err |-> "OK", h |-> h, ns |-> Append(ns, node),
              out |-> [node |-> Len(ns) + 1], paths |-> {mp}]

\* Node.Lookup.
DoLookup(h, ns, n, name, flt) ==
    LET node == makeNode(Join(ns[n].path, <<name>>))
        mp == mirrorPath(node)
    IN  IF ~pathExists(h, mp, flt["stat"])
        THEN [err |-> "ENOENT", h |-> h, ns |-> ns, out |-> [node |-> 0], paths |-> {mp}]
        ELSE [err |-> "OK", h |-> h, ns |-> Append(ns, node),
              out |-> [node |-> Len(ns) + 1], paths |-> {mp}]

\* Node.ReadDirAll.
DoReadDirAll(h, ns, n, flt) ==
    LET mp == mirrorPath(ns[n])
        rd == ReadDir(h, mp, flt["readdir"])
    IN  IF rd.err # "OK"
        THEN [err |-> errno(rd.err), h |-> h, ns |-> ns, out |-> [ents |-> <<>>],
              paths |-> {mp}]
        ELSE [err |-> "OK", h |-> h, ns |-> ns,
              out |-> [ents |-> [k \in 1..Len(rd.infos) |->
                                    [inode |-> rd.infos[k].fi.ino,
                                     type |-> fuseType(rd.infos[k].fi),
                                     name |-> rd.infos[k].name]]],
              paths |-> {mp}]

\* A faulty Mkdir: a failing chown is returned, and no Node with it.
DoMkdir_ReturnsChownError(h, ns, n, req, t, flt) ==
    LET dir == makeNode(Join(ns[n].path, <<req.name>>))
        mp == mirrorPath(dir)
        mk == osMkdir(h, mp, req.perm, t, flt["mkdir"])
        co == Chown(mk.h, mp, req.uid, req.gid, flt["chown"])
    IN  IF mk.err # "OK"
        THEN [err |-> errno(mk.err), h |-> mk.h, ns |-> ns, out |-> [node |-> 0],
              paths |-> {mp}]
        ELSE IF co.err # "OK"
        THEN [err |-> errno(co.err), h |-> co.h, ns |-> ns, out |-> [node |-> 0],
              paths |-> {mp}]
        ELSE [err |-> "OK", h |-> co.h,
              ns |-> Append(ns, dir), out |-> [node |-> Len(ns) + 1], paths |-> {mp}]

\* Node.Mkdir.
DoMkdir(h, ns, n, req, t, flt) ==
    LET dir == makeNode(Join(ns[n].path, <<req.name>>))
        mp == mirrorPath(dir)
        mk == osMkdir(h, mp, req.perm, t, flt["mkdir"])
    IN  IF mk.err # "OK"
        THEN [err |-> errno(mk.err), h |-> mk.h, ns |-> ns, out |-> [node |-> 0],
              paths |-> {mp}]
        ELSE [err |-> "OK", h |-> Chown(mk.h, mp, req.uid, req.gid, flt["chown"]).h,
              ns |-> Append(ns, dir), out |-> [node |-> Len(ns) + 1], paths |-> {mp}]

\* A faulty Create: a descriptor some Node holds for the path is taken over.
DoCreate_SharesOpenFile(h, ns, n, req, t, flt) ==
    LET f == makeNode(Join(ns[n].path, <<req.name>>))
        mp == mirrorPath(f)
        same == {j \in DOMAIN ns : ns[j].path = f.path /\ ns[j].file # 0}
        op == OpenFile(h, mp, req.flags, req.perm, t, flt["open"])
    IN  IF same # {}
        THEN [err |-> "OK", h |-> h,
              ns |-> Append(ns, [f EXCEPT !.file = ns[CHOOSE j \in same : TRUE].file]),
              out |-> [node |-> Len(ns) + 1], paths |-> {mp}]
        ELSE IF op.err # "OK"
        THEN [err |-> errno(op.err), h |-> op.h, ns |-> ns, out |-> [node |-> 0],
              paths |-> {mp}]
        ELSE [err |-> "OK", h |-> op.h, ns |-> Append(ns, [f EXCEPT !.file = op.fd]),
              out |-> [node |-> Len(ns) + 1], paths |-> {mp}]

\* Node.Create: the Node it returns is the handle too.
DoCreate(h, ns, n, req, t, flt) ==
    LET f == makeNode(Join(ns[n].path, <<req.name>>))
        mp == mirrorPath(f)
        op == OpenFile(h, mp, req.flags, req.perm, t, flt["open"])
    IN  IF op.err # "OK"
        THEN [err |-> errno(op.err), h |-> op.h, ns |-> ns, out |-> [node |-> 0],
              paths |-> {mp}]
        ELSE [err |-> "OK", h |-> op.h, ns |-> Append(ns, [f EXCEPT !.file = op.fd]),
              out |-> [node |-> Len(ns) + 1], paths |-> {mp}]

\* A faulty Remove: the entry's path is built from the Node's path in the mount.
DoRemove_MountPath(h, ns, n, name, t, flt) ==
    LET path == Join(ns[n].path, <<name>>)
        rm == osRemove(h, path, t, flt["remove"])
    IN  [err |-> IF rm.err # "OK" THEN errno(rm.err) ELSE "OK", h |-> rm.h, ns |-> ns,
         out |-> [none |-> TRUE], paths |-> {path}]

\* Node.Remove.
DoRemove(h, ns, n, name, t, flt) ==
    LET path == Join(mirrorPath(ns[n]), <<name>>)
        rm == osRemove(h, path, t, flt["remove"])
    IN  [err |-> IF rm.err # "OK" THEN errno(rm.err) ELSE "OK", h |-> rm.h, ns |-> ns,
         out |-> [none |-> TRUE], paths |-> {path}]

\* A faulty Rename: a destination that is no *Node is taken for the source
\* directory.
DoRename_ForeignIsSource(h, ns, n, req, d, t, flt) ==
    LET to == IF d = 0 THEN n ELSE d
        src == Join(mirrorPath(ns[n]), <<req.oldName>>)
        dst == Join(mirrorPath(ns[to]), <<req.newName>>)
        rn == osRename(h, src, dst, t, flt["rename"])
    IN  [err |-> IF rn.err # "OK" THEN errno(rn.err) ELSE "OK", h |-> rn.h, ns |-> ns,
         out |-> [none |-> TRUE], paths |-> {src, dst}]

\* A faulty Rename: the new name is put into the source directory.
DoRename_IgnoresNewDir(h, ns, n, req, d, t, flt) ==
    IF d = 0
    THEN [err |-> "ENOTNODE", h |-> h, ns |-> ns, out |-> [none |-> TRUE], paths |-> {}]
    ELSE LET src == Join(mirrorPath(ns[n]), <<req.oldName>>)
             dst == Join(mirrorPath(ns[n]), <<req.newName>>)
             rn == osRename(h, src, dst, t, flt["rename"])
         IN  [err |-> IF rn.err # "OK" THEN errno(rn.err) ELSE "OK", h |-> rn.h, ns |-> ns,
              out |-> [none |-> TRUE], paths |-> {src, dst}]

\* Node.Rename.  d is the destination's Node, or 0 for an fs.Node that is not
\* a *Node; the error then is errors.New(...), no FUSE error number.
DoRename(h, ns, n, req, d, t, flt) ==
    IF d = 0
    THEN [err |-> "ENOTNODE", h |-> h, ns |-> ns, out |-> [none |-> TRUE], paths |-> {}]
    ELSE LET src == Join(mirrorPath(ns[n]), <<req.oldName>>)
             dst == Join(mirrorPath(ns[d]), <<req.newName>>)
             rn == osRename(h, src, dst, t, flt["rename"])
         IN  [err |-> IF rn.err # "OK" THEN errno(rn.err) ELSE "OK", h |-> rn.h, ns |-> ns,
              out |-> [none |-> TRUE], paths |-> {src, dst}]

Zeros(k) == [i \in 1..k |-> 0]

\* A faulty lazy open: the file object of an open that failed stays in the handle.
LazyOpen_KeepsFailedOpen(h, ns, n, fl, t, flt) ==
    IF ns[n].file # 0 THEN [err |-> "OK", h |-> h, ns |-> ns]
    ELSE LET mp == mirrorPath(ns[n])
             st == Stat(h, mp, flt["stat"])
         IN  IF st.err # "OK" THEN [err |-> st.err, h |-> h, ns |-> ns]
             ELSE LET op == OpenFile(h, mp, fl, st.fi.perm, t, flt["open"])
                  IN  IF op.err # "OK"
                      THEN [err |-> op.err, h |-> op.h,
                            ns |-> [ns EXCEPT ![n].file = h.nfd + 1]]
                      ELSE [err |-> "OK", h |-> op.h, ns |-> [ns EXCEPT ![n].file = op.fd]]

\* A faulty lazy open: it takes over the handle of another Node for the same path.
LazyOpen_SharesHandle(h, ns, n, fl, t, flt) ==
    LET same == {j \in DOMAIN ns : j # n /\ ns[j].path = ns[n].path /\ ns[j].file # 0} IN
    IF ns[n].file # 0 THEN [err |-> "OK", h |-> h, ns |-> ns]
    ELSE IF same # {}
    THEN [err |-> "OK", h |-> h,
          ns |-> [ns EXCEPT ![n].file = ns[CHOOSE j \in same : TRUE].file]]
    ELSE LET mp == mirrorPath(ns[n])
             st == Stat(h, mp, flt["stat"])
         IN  IF st.err # "OK" THEN [err |-> st.err, h |-> h, ns |-> ns]
             ELSE LET op == OpenFile(h, mp, fl, st.fi.perm, t, flt["open"])
                  IN  IF op.err # "OK" THEN [err |-> op.err, h |-> op.h, ns |-> ns]
                      ELSE [err |-> "OK", h |-> op.h, ns |-> [ns EXCEPT ![n].file = op.fd]]

\* The lazy open of Read and Write: [err, h, ns], the handle bound on success.
LazyOpen(h, ns, n, fl, t, flt) ==
    IF ns[n].file # 0 THEN [err |-> "OK", h |-> h, ns |-> ns]
    ELSE LET mp == mirrorPath(ns[n])
             st == Stat(h, mp, flt["stat"])
         IN  IF st.err # "OK" THEN [err |-> st.err, h |-> h, ns |-> ns]
             ELSE LET op == OpenFile(h, mp, fl, st.fi.perm, t, flt["open"])
                  IN  IF op.err # "OK" THEN [err |-> op.err, h |-> op.h, ns |-> ns]
                      ELSE [err |-> "OK", h |-> op.h, ns |-> [ns EXCEPT ![n].file = op.fd]]

LazyPaths(ns, n) == IF ns[n].file # 0 THEN {} ELSE {mirrorPath(ns[n])}

\* A faulty Read: at end of file the buffer is not cut to the bytes read.
ReadData_KeepsBuffer(h, ns, n, req, flt, paths) ==
    LET ra == ReadAt(h, ns[n].file, req.offset, req.size, flt["read"])
        buf == ra.data \o Zeros(req.size - ra.n)
    IN  IF ra.err \notin {"OK", "EOF"}
        THEN [err |-> errno(ra.err), h |-> h, ns |-> ns, out |-> [data |-> buf],
              paths |-> paths]
        ELSE [err |-> "OK", h |-> h, ns |-> ns, out |-> [data |-> buf], paths |-> paths]

\* Node.Read past the lazy open: the buffer of req.size bytes, cut to what was
\* read at end of file.  paths are the host paths the call has used so far.
ReadData(h, ns, n, req, flt, paths) ==
    LET ra == ReadAt(h, ns[n].file, req.offset, req.size, flt["read"])
        buf == ra.data \o Zeros(req.size - ra.n)
    IN  IF ra.err \notin {"OK", "EOF"}
        THEN [err |-> errno(ra.err), h |-> h, ns |-> ns, out |-> [data |-> buf],
              paths |-> paths]
        ELSE [err |-> "OK", h |-> h, ns |-> ns,
              out |-> [data |-> IF ra.err = "EOF" THEN SubSeq(buf, 1, ra.n) ELSE buf],
              paths |-> paths]

\* Node.Read.
DoRead(h, ns, n, req, t, flt) ==
    LET lo == LazyOpen(h, ns, n, req.flags, t, flt) IN
    IF lo.err # "OK"
    THEN [err |-> errno(lo.err), h |-> lo.h, ns |-> lo.ns, out |-> [data |-> <<>>],
          paths |-> LazyPaths(ns, n)]
    ELSE ReadData(lo.h, lo.ns, n, req, flt, LazyPaths(ns, n))

\* A faulty Write: the count written is not put into the response.
WriteData_DropsSize(h, ns, n, req, t, flt, paths) ==
    LET wa == WriteAt(h, ns[n].file, req.offset, req.data, t, flt["write"], req.append)
    IN  [err |-> IF wa.err # "OK" THEN errno(wa.err) ELSE "OK", h |-> wa.h,
         ns |-> ns, out |-> [size |-> 0], paths |-> paths]

\* Node.Write past the lazy open.
WriteData(h, ns, n, req, t, flt, paths) ==
    LET wa == WriteAt(h, ns[n].file, req.offset, req.data, t, flt["write"], req.append)
    IN  [err |-> IF wa.err # "OK" THEN errno(wa.err) ELSE "OK", h |-> wa.h,
         ns |-> ns, out |-> [size |-> wa.n], paths |-> paths]

\* Node.Write.
DoWrite(h, ns, n, req, t, flt) ==
    LET lo == LazyOpen(h, ns, n, req.flags, t, flt) IN
    IF lo.err # "OK"
    THEN [err |-> errno(lo.err), h |-> lo.h, ns |-> lo.ns, out |-> [size |-> 0],
          paths |-> LazyPaths(ns, n)]
    ELSE WriteData(lo.h, lo.ns, n, req, t, flt, LazyPaths(ns, n))

\* A faulty Fsync: it opens the mirror file when the handle is Closed.
DoFsync_Reopens(h, ns, n, flt) ==
    LET lo == LazyOpen(h, ns, n, {"RDWR"}, 0, flt)
        e == IF lo.ns[n].file # 0 THEN Sync(lo.h, lo.ns[n].file, flt["sync"]) ELSE "OK"
    IN  [err |-> IF e # "OK" THEN errno(e) ELSE "OK", h |-> lo.h, ns |-> lo.ns,
         out |-> [none |-> TRUE], paths |-> {}]

\* Node.Fsync.
DoFsync(h, ns, n, flt) ==
    LET e == IF ns[n].file # 0 THEN Sync(h, ns[n].file, flt["sync"]) ELSE "OK" IN
    [err |-> IF e # "OK" THEN errno(e) ELSE "OK", h |-> h, ns |-> ns,
     out |-> [none |-> TRUE], paths |-> {}]

\* A faulty Flush: it closes the descriptor, as Release does.
DoFlush_Closes(h, ns, n) ==
    IF ns[n].file = 0
    THEN [err |-> "OK", h |-> h, ns |-> ns, out |-> [none |-> TRUE], paths |-> {}]
    ELSE [err |-> "OK", h |-> Close(h, ns[n].file, "OK").h,
          ns |-> [ns EXCEPT ![n].file = 0], out |-> [none |-> TRUE], paths |-> {}]

\* Node.Flush.
DoFlush(h, ns, n) ==
    [err |-> "OK", h |-> h, ns |-> ns, out |-> [none |-> TRUE], paths |-> {}]

\* A faulty Release: a failing close is returned, the handle left as it was.
DoRelease_StopsOnCloseError(h, ns, n, flush, flt) ==
    IF ns[n].file = 0
    THEN [err |-> "OK", h |-> h, ns |-> ns, out |-> [cautions |-> <<>>], paths |-> {}]
    ELSE LET se == IF flush THEN Sync(h, ns[n].file, flt["sync"]) ELSE "OK"
             cl == Close(h, ns[n].file, flt["close"])
         IN  IF cl.err # "OK"
             THEN [err |-> errno(cl.err), h |-> cl.h, ns |-> ns,
                   out |-> [cautions |-> SelectSeq(<<se>>, LAMBDA e : e # "OK")],
                   paths |-> {}]
             ELSE [err |-> "OK", h |-> cl.h, ns |-> [ns EXCEPT ![n].file = 0],
                   out |-> [cautions |-> SelectSeq(<<se>>, LAMBDA e : e # "OK")],
                   paths |-> {}]

\* Node.Release: out.cautions are the errors it logs and does not return.
DoRelease(h, ns, n, flush, flt) ==
    IF ns[n].file = 0
    THEN [err |-> "OK", h |-> h, ns |-> ns, out |-> [cautions |-> <<>>], paths |-> {}]
    ELSE LET se == IF flush THEN Sync(h, ns[n].file, flt["sync"]) ELSE "OK"
             cl == Close(h, ns[n].file, flt["close"])
         IN  [err |-> "OK", h |-> cl.h, ns |-> [ns EXCEPT ![n].file = 0],
              out |-> [cautions |-> SelectSeq(<<se, cl.err>>, LAMBDA e : e # "OK")],
              paths |-> {}]

\* FileSystem.Root: the Node NewFS made.
DoRoot(h, ns) ==
    [err |-> "OK", h |-> h, ns |-> ns, out |-> [node |-> 1], paths |-> {}]

(***************************************************************************)
(* the state machine: one action per operation the bridge dispatches, each *)
(* the whole handler.  Every call takes one tick of the clock.             *)
(***************************************************************************)
NoCall == [op |-> "none", n |-> 0, in |-> [none |-> TRUE], err |-> "OK",
           out |-> [none |-> TRUE], paths |-> {}, pre |-> <<>>]

\* NewFS(mount, mirror, false): the root Node is made for the mount path.
NewFS(mount, mirror) ==
    /\ fs = [mount |-> mount, mirror |-> mirror]
    /\ nodes = <<makeNode(mount)>>
    /\ host = InitHost(mirror)
    /\ now = 0
    /\ hist = <<NoCall, NoCall, NoCall>>
    /\ tasks = <<>>

Init == NewFS(<<"home", "mnt">>, <<"mir">>)

NodeIds == 1..Len(nodes)
T == now + 1

\* The handler's call, as the history keeps it; pre is what the host had at
\* the call's paths before the step in which the call returns.
Call(op, n, in, r) ==
    [op |-> op, n |-> n, in |-> in, err |-> r.err, out |-> r.out, paths |-> r.paths,
     pre |-> [p \in {q \in r.paths : Exists(host, q)} |->
                 [ino |-> host.tree[p], dir |-> IsDir(host, p),
                  data |-> Inode(host, p).data]]]

Do(op, n, in, r) ==
    /\ now < MaxTime
    /\ host' = r.h
    /\ nodes' = r.ns
    /\ now' = T
    /\ hist' = <<hist[2], hist[3], Call(op, n, in, r)>>
    /\ UNCHANGED <<fs, tasks>>

Root == Do("Root", 0, [none |-> TRUE], DoRoot(host, nodes))
Attr(n, flt) == Do("Attr", n, [flt |-> flt], DoAttr(host, nodes, n, T, flt))
Setattr(n, req, flt) ==
    Do("Setattr", n, [req |-> req, flt |-> flt], DoSetattr(host, nodes, n, req, T, flt))
Lookup(n, name, flt) ==
    Do("Lookup", n, [name |-> name, flt |-> flt], DoLookup(host, nodes, n, name, flt))
ReadDirAll(n, flt) == Do("ReadDirAll", n, [flt |-> flt], DoReadDirAll(host, nodes, n, flt))
Mkdir(n, req, flt) ==
    Do("Mkdir", n, [req |-> req, flt |-> flt], DoMkdir(host, nodes, n, req, T, flt))
Create(n, req, flt) ==
    Do("Create", n, [req |-> req, flt |-> flt], DoCreate(host, nodes, n, req, T, flt))
Remove(n, name, flt) ==
    Do("Remove", n, [name |-> name, flt |-> flt], DoRemove(host, nodes, n, name, T, flt))
Rename(n, req, d, flt) ==
    Do("Rename", n, [req |-> req, d |-> d, flt |-> flt],
       DoRename(host, nodes, n, req, d, T, flt))
Read(n, req, flt) ==
    Do("Read", n, [req |-> req, flt |-> flt], DoRead(host, nodes, n, req, T, flt))
Write(n, req, flt) ==
    Do("Write", n, [req |-> req, flt |-> flt], DoWrite(host, nodes, n, req, T, flt))
Fsync(n, flt) == Do("Fsync", n, [flt |-> flt], DoFsync(host, nodes, n, flt))
Flush(n) == Do("Flush", n, [none |-> TRUE], DoFlush(host, nodes, n))
Release(n, flush, flt) ==
    Do("Release", n, [flush |-> flush, flt |-> flt], DoRelease(host, nodes, n, flush, flt))

(***************************************************************************)
(* the requests the bridge sends.  Names are single components, never "."  *)
(* or "..": the kernel resolves those before it asks.                      *)
(***************************************************************************)
SetattrReq(valid, size, uid, gid, perm, atime, mtime) ==
    [valid |-> valid, size |-> size, uid |-> uid, gid |-> gid, perm |-> perm,
     atime |-> atime, mtime |-> mtime]
SizeReq(k) == SetattrReq({"size"}, k, 0, 0, 0, 0, 0)
ModeReq(perm) == SetattrReq({"mode"}, 0, 0, 0, perm, 0, 0)
OwnerReq(uid, gid) == SetattrReq({"uid", "gid"}, 0, uid, gid, 0, 0, 0)
MtimeReq(mtime) == SetattrReq({"mtime"}, 0, 0, 0, 0, 0, mtime)
MkdirReq(name) == [name |-> name, perm |-> 448, uid |-> 1, gid |-> 1]
CreateReq(name, flags) == [name |-> name, flags |-> flags, perm |-> 420]
RenameReq(old, new) == [oldName |-> old, newName |-> new]
ReadReq(off, size, flags) == [offset |-> off, size |-> size, flags |-> flags]
WriteReq(off, data, flags, am) ==
    [offset |-> off, data |-> data, flags |-> flags, append |-> am]

\* Release without and with the flush flag, the close or both calls failing.
ReleaseCases ==
    {[flush |-> FALSE, flt |-> NoFault],
     [flush |-> FALSE, flt |-> Fail("close", "EIO")],
     [flush |-> TRUE, flt |-> [NoFault EXCEPT !["sync"] = "EIO", !["close"] = "EIO"]]}

Next ==
    \/ Root
    \/ \E n \in NodeIds : Attr(n, NoFault)
    \/ \E n \in NodeIds : Setattr(n, SizeReq(1), NoFault)
    \/ \E n \in NodeIds, name \in {"a", "b"} : Lookup(n, name, NoFault)
    \/ \E n \in NodeIds : ReadDirAll(n, NoFault)
    \/ \E n \in NodeIds : Mkdir(n, MkdirReq("c"), NoFault)
    \/ \E n \in NodeIds,
          req \in {CreateReq("a", {"WRONLY", "CREAT", "TRUNC"}),
                   CreateReq("c", {"RDWR", "CREAT"})} : Create(n, req, NoFault)
    \/ \E n \in NodeIds : Remove(n, "a", NoFault)
    \/ \E n \in NodeIds : \E d \in {0, 1, n} : Rename(n, RenameReq("a", "c"), d, NoFault)
    \/ \E n \in NodeIds : Read(n, ReadReq(0, 2, {"RDONLY"}), NoFault)
    \/ \E n \in NodeIds : Write(n, WriteReq(0, <<7>>, {"WRONLY"}, "reject"), NoFault)
    \/ \E n \in NodeIds : Fsync(n, NoFault)
    \/ \E n \in NodeIds : Flush(n)
    \/ \E n \in NodeIds, rel \in ReleaseCases : Release(n, rel.flush, rel.flt)

Spec == Init /\ [][Next]_vars

(***************************************************************************)
(* PathSpec: the path mapper over several mount and mirror roots, applied  *)
(* by the handlers that build a path from a Node and a name.               *)
(***************************************************************************)
Roots == {<<"mnt">>, <<"home", "mnt">>, <<"mir">>, <<"mnt", "mir">>}

InitPath == \E mount \in Roots, mirror \in Roots : NewFS(mount, mirror)

NextPath ==
    \/ Root
    \/ \E n \in NodeIds, name \in {"a", "b"} : Lookup(n, name, NoFault)
    \/ \E n \in NodeIds : Mkdir(n, MkdirReq("c"), NoFault)
    \/ \E n \in NodeIds : Create(n, CreateReq("c", {"RDWR", "CREAT"}), NoFault)
    \/ \E n \in NodeIds : Remove(n, "a", NoFault)
    \/ \E n \in NodeIds, d \in NodeIds : Rename(n, RenameReq("a", "c"), d, NoFault)

PathSpec == InitPath /\ [][NextPath]_vars

(***************************************************************************)
(* ConcSpec: the bridge runs every call as a task of its own; a task is    *)
(* suspended at the host calls, so a handler that makes several of them is *)
(* several steps, and the steps of the calls in flight interleave.  Create *)
(* makes one host call, and so does a Read or a Write that finds the       *)
(* handle Open: they are one step.  tasks holds the calls in flight: pc is *)
(* the step the task takes next, perm, fd and err are its locals.          *)
(***************************************************************************)
Task(op, n, req, pc, t) ==
    [op |-> op, n |-> n, req |-> req, pc |-> pc, t |-> t, perm |-> 0, fd |-> 0,
     err |-> "OK", log |-> <<>>]

Drop(s, k) == SubSeq(s, 1, k - 1) \o SubSeq(s, k + 1, Len(s))

\* Task k returns r.
Returns(k, r) ==
    /\ host' = r.h
    /\ nodes' = r.ns
    /\ tasks' = Drop(tasks, k)
    /\ hist' = <<hist[2], hist[3],
                 Call(tasks[k].op, tasks[k].n, [req |-> tasks[k].req, flt |-> NoFault], r)>>
    /\ UNCHANGED <<fs, now>>

\* Task k goes on as task u, the host now h.
Goes(k, u, h) ==
    /\ host' = h
    /\ tasks' = [tasks EXCEPT ![k] = u]
    /\ UNCHANGED <<fs, nodes, now, hist>>

\* A call starts and is suspended in its first host call, which leaves the host h.
Starts(u, h) ==
    /\ now < MaxTime
    /\ host' = h
    /\ now' = T
    /\ tasks' = Append(tasks, u)
    /\ UNCHANGED <<fs, nodes, hist>>

DataOut(op) == IF op = "Read" THEN [data |-> <<>>] ELSE [size |-> 0]

\* Read or Write starts: with the handle Open it reads or writes and returns;
\* with the handle Closed it stats the mirror path and goes on to open it.
BeginData(op, n, req) ==
    IF nodes[n].file # 0
    THEN Do(op, n, [req |-> req, flt |-> NoFault],
            IF op = "Read" THEN ReadData(host, nodes, n, req, NoFault, {})
            ELSE WriteData(host, nodes, n, req, T, NoFault, {}))
    ELSE LET st == Stat(host, mirrorPath(nodes[n]), "OK") IN
         IF st.err # "OK"
         THEN Do(op, n, [req |-> req, flt |-> NoFault],
                 [err |-> errno(st.err), h |-> host, ns |-> nodes, out |-> DataOut(op),
                  paths |-> {mirrorPath(nodes[n])}])
         ELSE Starts([Task(op, n, req, "open", T) EXCEPT !.perm = st.fi.perm], host)

\* os.OpenFile returns to the task; n.file is not assigned yet.
OpenStep(k) ==
    /\ tasks[k].pc = "open"
    /\ LET u == tasks[k]
           op == OpenFile(host, mirrorPath(nodes[u.n]), u.req.flags, u.perm, u.t, "OK")
       IN  Goes(k, [u EXCEPT !.pc = "assign", !.fd = op.fd, !.err = op.err], op.h)

\* n.file, err = ...: the result is stored, nil when the open failed.
AssignStep(k) ==
    /\ tasks[k].pc = "assign"
    /\ LET u == tasks[k]
           ns == [nodes EXCEPT ![u.n].file = u.fd]
       IN  IF u.err # "OK"
           THEN Returns(k, [err |-> errno(u.err), h |-> host, ns |-> ns,
                            out |-> DataOut(u.op), paths |-> {mirrorPath(nodes[u.n])}])
           ELSE /\ nodes' = ns
                /\ tasks' = [tasks EXCEPT ![k].pc = "data"]
                /\ UNCHANGED <<fs, host, now, hist>>

\* n.file.ReadAt or n.file.WriteAt, on what n.file holds by now.
DataStep(k) ==
    /\ tasks[k].pc = "data"
    /\ LET u == tasks[k] IN
       Returns(k, IF u.op = "Read"
                  THEN ReadData(host, nodes, u.n, u.req, NoFault, {mirrorPath(nodes[u.n])})
                  ELSE WriteData(host, nodes, u.n, u.req, u.t, NoFault,
                                 {mirrorPath(nodes[u.n])}))

\* Release starts: with the handle Closed it returns; with the handle Open it
\* makes its first host call, the sync when asked to flush, else the close.
BeginRelease(n, flush) ==
    IF nodes[n].file = 0
    THEN Do("Release", n, [flush |-> flush, flt |-> NoFault],
            DoRelease(host, nodes, n, flush, NoFault))
    ELSE IF flush
    THEN LET se == Sync(host, nodes[n].file, "OK") IN
         Starts([Task("Release", n, [flush |-> flush], "close", T)
                     EXCEPT !.log = SelectSeq(<<se>>, LAMBDA e : e # "OK")], host)
    ELSE LET cl == Close(host, nodes[n].file, "OK") IN
         Starts([Task("Release", n, [flush |-> flush], "clear", T)
                     EXCEPT !.log = SelectSeq(<<cl.err>>, LAMBDA e : e # "OK")], cl.h)

\* n.file.Close(), on what n.file holds by now.
CloseStep(k) ==
    /\ tasks[k].pc = "close"
    /\ LET u == tasks[k]
           cl == Close(host, nodes[u.n].file, "OK")
       IN  Goes(k, [u EXCEPT !.pc = "clear",
                             !.log = @ \o SelectSeq(<<cl.err>>, LAMBDA e : e # "OK")], cl.h)

\* n.file = nil, and Release returns.
ClearStep(k) ==
    /\ tasks[k].pc = "clear"
    /\ LET u == tasks[k] IN
       Returns(k, [err |-> "OK", h |-> host, ns |-> [nodes EXCEPT ![u.n].file = 0],
                   out |-> [cautions |-> u.log], paths |-> {}])

\* The mount after two Lookups of a: two Nodes for one path, both Closed.
InitConc ==
    /\ fs = [mount |-> <<"mnt">>, mirror |-> <<"mir">>]
    /\ nodes = <<makeNode(<<"mnt">>), makeNode(<<"mnt", "a">>), makeNode(<<"mnt", "a">>)>>
    /\ host = InitHost(<<"mir">>)
    /\ now = 0
    /\ hist = <<NoCall, NoCall, NoCall>>
    /\ tasks = <<>>

FileNodes == NodeIds \ {1}

NextConc ==
    \/ Create(1, CreateReq("c", {"RDWR", "CREAT"}), NoFault)
    \/ \E n \in FileNodes : BeginData("Write", n, WriteReq(0, <<7>>, {"RDWR"}, "reject"))
    \/ \E n \in FileNodes : BeginRelease(n, TRUE)
    \/ \E k \in DOMAIN tasks : OpenStep(k)
    \/ \E k \in DOMAIN tasks : AssignStep(k)
    \/ \E k \in DOMAIN tasks : DataStep(k)
    \/ \E k \in DOMAIN tasks : CloseStep(k)
    \/ \E k \in DOMAIN tasks : ClearStep(k)

ConcSpec == InitConc /\ [][NextConc]_vars

(***************************************************************************)
(* RWSpec: the data path of one file.  The mount has looked a up already;  *)
(* files are created, written, read, truncated and released.               *)
(***************************************************************************)
InitRW ==
    /\ fs = [mount |-> <<"mnt">>, mirror |-> <<"mir">>]
    /\ nodes = <<makeNode(<<"mnt">>), makeNode(<<"mnt", "a">>)>>
    /\ host = InitHost(<<"mir">>)
    /\ now = 0
    /\ hist = <<NoCall, NoCall, NoCall>>
    /\ tasks = <<>>

CreateFlags == {{"RDWR", "CREAT"}, {"RDWR", "CREAT", "EXCL"}, {"WRONLY", "CREAT", "TRUNC"}}

\* Offset and size of the Reads: inside the file, across its end, beyond it.
ReadRanges == {<<0, 1>>, <<0, 2>>, <<1, 2>>, <<2, 1>>}

NextRW ==
    \/ \E fl \in CreateFlags : Create(1, CreateReq("c", fl), NoFault)
    \/ \E n \in FileNodes, data \in {<<7>>, <<7, 8>>} :
          Write(n, WriteReq(0, data, {"WRONLY"}, "reject"), NoFault)
    \/ \E n \in FileNodes, r \in ReadRanges :
          Read(n, ReadReq(r[1], r[2], {"RDONLY"}), NoFault)
    \/ \E n \in FileNodes, k \in {0, 1} : Setattr(n, SizeReq(k), NoFault)
    \/ \E n \in FileNodes : Attr(n, NoFault)
    \/ \E n \in FileNodes : Release(n, FALSE, NoFault)

RWSpec == InitRW /\ [][NextRW]_vars

(***************************************************************************)
(* AttrSpec: attributes.  The mount has looked up the file a and the       *)
(* directory b; the host refuses some of the changes Setattr asks for.     *)
(***************************************************************************)
InitAttr ==
    /\ fs = [mount |-> <<"mnt">>, mirror |-> <<"mir">>]
    /\ nodes = <<makeNode(<<"mnt">>), makeNode(<<"mnt", "a">>), makeNode(<<"mnt", "b">>)>>
    /\ host = InitHost(<<"mir">>)
    /\ now = 0
    /\ hist = <<NoCall, NoCall, NoCall>>
    /\ tasks = <<>>

\* Setattr requests, and the failure the host injects into each.
SetattrCases ==
    {[req |-> SizeReq(1), flt |-> NoFault],
     [req |-> ModeReq(384), flt |-> NoFault],
     [req |-> ModeReq(384), flt |-> Fail("chmod", "EPERM")],
     [req |-> OwnerReq(1, 1), flt |-> NoFault],
     [req |-> OwnerReq(1, 1), flt |-> Fail("chown", "EPERM")],
     [req |-> MtimeReq(9), flt |-> NoFault],
     [req |-> SetattrReq({"size", "uid", "mode", "atimenow"}, 0, 1, 0, 384, 0, 0),
      flt |-> Fail("chtimes", "EPERM")]}

NextAttr ==
    \/ \E n \in FileNodes, c \in SetattrCases : Setattr(n, c.req, c.flt)
    \/ \E n \in FileNodes, flt \in {NoFault, Fail("stat", "EACCES"), Fail("stat", "EIO")} :
          Attr(n, flt)
    \/ Write(2, WriteReq(1, <<7, 8>>, {"WRONLY"}, "reject"), NoFault)
    \/ Remove(1, "a", NoFault)

AttrSpec == InitAttr /\ [][NextAttr]_vars

(***************************************************************************)
(* DirSpec: the directory operations.  The mount has looked up the         *)
(* directory b; the mirror has a second name, l, for the file a.           *)
(***************************************************************************)
\* The host with the path new as one more name of the file at old.
Linked(h, old, new) == [h EXCEPT !.tree = (new :> h.tree[old]) @@ h.tree]

InitDir ==
    /\ fs = [mount |-> <<"mnt">>, mirror |-> <<"mir">>]
    /\ nodes = <<makeNode(<<"mnt">>), makeNode(<<"mnt", "b">>)>>
    /\ host = Linked(InitHost(<<"mir">>), <<"mir", "a">>, <<"mir", "l">>)
    /\ now = 0
    /\ hist = <<NoCall, NoCall, NoCall>>
    /\ tasks = <<>>

Dirs == {1, 2}

NextDir ==
    \/ \E n \in Dirs, d \in Dirs, old \in {"a", "b"}, new \in {"a", "c", "l"} :
          Rename(n, RenameReq(old, new), d, NoFault)
    \/ \E n \in Dirs, name \in {"a", "c", "l"} : Lookup(n, name, NoFault)
    \/ \E n \in NodeIds \ Dirs : Read(n, ReadReq(0, 2, {"RDONLY"}), NoFault)

DirSpec == InitDir /\ [][NextDir]_vars

(***************************************************************************)
(* ListSpec: looking up, listing and making directories.  The mount has    *)
(* looked up the directory b; the host refuses some of the calls.          *)
(***************************************************************************)
InitList ==
    /\ fs = [mount |-> <<"mnt">>, mirror |-> <<"mir">>]
    /\ nodes = <<makeNode(<<"mnt">>), makeNode(<<"mnt", "b">>)>>
    /\ host = InitHost(<<"mir">>)
    /\ now = 0
    /\ hist = <<NoCall, NoCall, NoCall>>
    /\ tasks = <<>>

\* Mkdir requests, and the failure the host injects into each.
MkdirCases ==
    {[req |-> MkdirReq("c"), flt |-> NoFault],
     [req |-> MkdirReq("c"), flt |-> Fail("mkdir", "EACCES")],
     [req |-> MkdirReq("c"), flt |-> Fail("chown", "EPERM")],
     [req |-> MkdirReq("a"), flt |-> NoFault]}

NextList ==
    \/ \E n \in NodeIds, name \in {"a", "c"}, flt \in {NoFault, Fail("stat", "EACCES")} :
          Lookup(n, name, flt)
    \/ \E n \in NodeIds : ReadDirAll(n, NoFault)
    \/ \E n \in Dirs, c \in MkdirCases : Mkdir(n, c.req, c.flt)
    \/ \E n \in Dirs, name \in {"a", "b"} : Remove(n, name, NoFault)

ListSpec == InitList /\ [][NextList]_vars

(***************************************************************************)
(* LiveSpec: attributes of a file that changes.  The mount has handed out  *)
(* two Nodes for the file a and one for the directory b; the file changes  *)
(* through the mount and, behind its back, on the host.                    *)
(***************************************************************************)
InitLive ==
    /\ fs = [mount |-> <<"mnt">>, mirror |-> <<"mir">>]
    /\ nodes = <<makeNode(<<"mnt">>), makeNode(<<"mnt", "a">>), makeNode(<<"mnt", "a">>),
                 makeNode(<<"mnt", "b">>)>>
    /\ host = InitHost(<<"mir">>)
    /\ now = 0
    /\ hist = <<NoCall, NoCall, NoCall>>
    /\ tasks = <<>>

\* Another process of the host rewrites the file at p: content, mode, mtime.
Outside(p, x) ==
    /\ Exists(host, p) /\ ~IsDir(host, p)
    /\ Do("Outside", 0, [path |-> p, data |-> x],
          [err |-> "OK",
           h |-> [host EXCEPT !.inode[host.tree[p]] =
                     [@ EXCEPT !.data = x, !.perm = 256, !.mtime = T]],
           ns |-> nodes, out |-> [none |-> TRUE], paths |-> {p}])

NextLive ==
    \/ \E n \in NodeIds : Attr(n, NoFault)
    \/ Write(2, WriteReq(1, <<7, 8>>, {"WRONLY"}, "reject"), NoFault)
    \/ \E req \in {SizeReq(1), ModeReq(384)} : Setattr(2, req, NoFault)
    \/ Rename(4, RenameReq("a", "a"), 1, NoFault)
    \/ Remove(1, "a", NoFault)
    \/ Outside(<<"mir", "a">>, <<5, 6, 7, 8>>)

LiveSpec == InitLive /\ [][NextLive]_vars

(***************************************************************************)
(* SetSpec: Setattr with several fields at once.  The mount has looked up  *)
(* the file a and the directory b; a request names supported fields,       *)
(* fields Setattr does not support, or both, and the host refuses one of   *)
(* the calls Setattr makes.                                                *)
(***************************************************************************)
\* The fields of fuse.SetattrValid Setattr only logs.
Unsupported == {"handle", "lockowner", "bkuptime", "chgtime", "crtime", "flags"}

\* A request for the fields in valid, with one value for each field.
Fields(valid) == SetattrReq(valid, 1, 1, 1, 384, 8, 9)

SetCases ==
    {[req |-> Fields({"size", "uid", "gid", "mode", "atime", "mtime"}), flt |-> NoFault],
     [req |-> Fields({"size", "mode"}), flt |-> Fail("truncate", "EIO")],
     [req |-> Fields({"uid", "mode"}), flt |-> Fail("chown", "EPERM")],
     [req |-> Fields({"mode", "mtime"}), flt |-> Fail("chmod", "EPERM")],
     [req |-> Fields({"size", "atimenow"}), flt |-> NoFault],
     [req |-> Fields({"gid", "mtimenow"}), flt |-> Fail("chtimes", "EPERM")],
     [req |-> Fields({"mode"}), flt |-> NoFault],
     [req |-> Fields(Unsupported), flt |-> NoFault],
     [req |-> Fields(Unsupported), flt |-> Fail("stat", "EACCES")],
     [req |-> Fields({"size", "mode", "handle", "flags"}), flt |-> NoFault],
     [req |-> Fields({"uid", "crtime"}), flt |-> Fail("chown", "EPERM")]}

NextSet == \E n \in FileNodes, c \in SetCases : Setattr(n, c.req, c.flt)

SetSpec == InitAttr /\ [][NextSet]_vars

(***************************************************************************)
(* ErrSpec: the errors of the host.  The mount has looked up the file a    *)
(* and the directory b; in every call the host fails one of the handler's  *)
(* calls with one of its errors.                                           *)
(***************************************************************************)
\* Errors the host calls of this layer fail with.
HostErrors ==
    {"EEXIST", "ENOTEMPTY", "ENOENT", "EACCES", "EPERM", "EIO", "ENOTDIR", "EISDIR",
     "EBADF", "ENOSPC", "EINVAL", "ECLOSED"}

\* For each handler the calls the host fails, and with what.
ErrCases ==
    [Attr |-> {Fail("stat", "ENOENT"), Fail("stat", "EACCES"), Fail("stat", "ENOTDIR")},
     Setattr |-> {Fail("truncate", "EIO"), Fail("truncate", "EPERM"),
                  Fail("chown", "EACCES"), Fail("stat2", "ENOENT")},
     ReadDirAll |-> {Fail("readdir", "EACCES"), Fail("readdir", "ENOTDIR")},
     Mkdir |-> {Fail("mkdir", "EEXIST"), Fail("mkdir", "ENOSPC")},
     Create |-> {Fail("open", "EEXIST"), Fail("open", "EISDIR")},
     Remove |-> {Fail("remove", "ENOTEMPTY"), Fail("remove", "ENOENT")},
     Read |-> {NoFault, Fail("stat", "ENOENT"), Fail("open", "EACCES"), Fail("read", "EIO")},
     Write |-> {Fail("open", "EACCES"), Fail("write", "ENOSPC"), Fail("write", "EBADF")},
     Fsync |-> {Fail("sync", "EIO"), Fail("sync", "ENOSPC")}]

NextErr ==
    \/ \E flt \in ErrCases.Attr : Attr(2, flt)
    \/ \E flt \in ErrCases.Setattr : Setattr(2, Fields({"size", "uid"}), flt)
    \/ \E flt \in ErrCases.ReadDirAll : ReadDirAll(3, flt)
    \/ \E flt \in ErrCases.Mkdir : Mkdir(1, MkdirReq("c"), flt)
    \/ \E flt \in ErrCases.Create : Create(1, CreateReq("c", {"RDWR", "CREAT"}), flt)
    \/ \E flt \in ErrCases.Remove : Remove(3, "a", flt)
    \/ \E flt \in ErrCases.Read : Read(2, ReadReq(0, 2, {"RDWR"}), flt)
    \/ \E flt \in ErrCases.Write : Write(2, WriteReq(0, <<7>>, {"RDWR"}, "reject"), flt)
    \/ \E flt \in ErrCases.Fsync : Fsync(2, flt)

ErrSpec == InitAttr /\ [][NextErr]_vars

(***************************************************************************)
(* Claims                                                                  *)
(***************************************************************************)
Latest == hist[3]
Opened(c) == c.op \in {"Read", "Write"} /\ c.err = "OK" /\ c.paths # {}

\* C1: a Node's handle goes from Closed to Open only by the Create that returns
\* the Node or by a Read or Write on it, and from Open to Closed only by a
\* Release on it; no other operation changes any Node's handle, and an Open
\* handle is never rebound.
C1_HandleStateMachine ==
    [][\A i \in 1..Len(nodes') :
          LET before == IF i <= Len(nodes) THEN nodes[i].file ELSE 0
              after == nodes'[i].file
              c == hist'[3]
          IN  before # after =>
                \/ /\ before = 0
                   /\ \/ i <= Len(nodes) /\ c.op \in {"Read", "Write"} /\ c.n = i
                      \/ i > Len(nodes) /\ c.op = "Create" /\ c.out.node = i
                \/ /\ after = 0
                   /\ c.op = "Release" /\ c.n = i]_vars

\* A Node that Lookup returned Closed was opened by a Read and closed by a Release.
C1_Witness ==
    /\ hist[1].op = "Lookup" /\ hist[1].err = "OK"
    /\ hist[2].op = "Read" /\ hist[2].n = hist[1].out.node /\ Opened(hist[2])
    /\ hist[3].op = "Release" /\ hist[3].n = hist[2].n
    /\ nodes[hist[3].n].file = 0

\* C2: Release returns no error and leaves the handle Closed: an Open handle's
\* descriptor is closed and the handle cleared whether or not the sync or the
\* close fails; on a Closed handle Release changes nothing.
C2_ReleaseAlwaysClears ==
    [][hist'[3].op = "Release" =>
          LET c == hist'[3] IN
          /\ c.err = "OK"
          /\ nodes'[c.n].file = 0
          /\ nodes[c.n].file # 0 => nodes[c.n].file \notin DOMAIN host'.fds
          /\ nodes[c.n].file = 0 => host' = host /\ nodes' = nodes]_vars

\* Release of an Open handle with both the sync and the close failing.
C2_Witness ==
    /\ Latest.op = "Release" /\ Latest.in.flush
    /\ Latest.out.cautions = <<"EIO", "EIO">>
    /\ nodes[Latest.n].file = 0

\* The Nodes with every handle but that of Node n taken away.
Isolate(ns, n) == [i \in DOMAIN ns |-> IF i = n THEN ns[i] ELSE [ns[i] EXCEPT !.file = 0]]

\* What a file operation on Node n does, as far as the caller and the host can tell.
Effect(r, n) == [err |-> r.err, out |-> r.out, h |-> r.h, node |-> r.ns[n]]

FileOp(h, ns, c, t) ==
    CASE c.op = "Read" -> DoRead(h, ns, c.n, c.in.req, t, c.in.flt)
      [] c.op = "Write" -> DoWrite(h, ns, c.n, c.in.req, t, c.in.flt)
      [] c.op = "Fsync" -> DoFsync(h, ns, c.n, c.in.flt)
      [] c.op = "Release" -> DoRelease(h, ns, c.n, c.in.flush, c.in.flt)

\* C3: each Node's handle is absent or bound to one open descriptor, no
\* descriptor is bound to two Nodes; an operation on one Node changes no other
\* Node's handle, and does the same whatever the other Nodes' handles are.
C3_HandleOwnership ==
    /\ [](\A i \in NodeIds :
            /\ nodes[i].file # 0 => nodes[i].file \in DOMAIN host.fds
            /\ \A j \in NodeIds : i # j /\ nodes[i].file # 0 =>
                                     nodes[i].file # nodes[j].file)
    /\ [][LET c == hist'[3] IN
          /\ \A j \in NodeIds : j # c.n => nodes'[j] = nodes[j]
          /\ c.op \in {"Read", "Write", "Fsync", "Release"} =>
                Effect(FileOp(host, Isolate(nodes, c.n), c, now'), c.n)
                    = [err |-> c.err, out |-> c.out, h |-> host', node |-> nodes'[c.n]]]_vars

\* Two Nodes for one path, both Open, and a Write went through one of them.
C3_Witness ==
    \E i, j \in NodeIds :
        /\ i # j /\ nodes[i].path = nodes[j].path
        /\ nodes[i].file # 0 /\ nodes[j].file # 0
        /\ Latest.op = "Write" /\ Latest.n = i /\ Latest.err = "OK"

\* C6: every Node the layer returned has a path at or below the mount root,
\* and every host path a handler touched is at or below the mirror root.
C6_PathsStayInside ==
    /\ \A i \in NodeIds : IsPrefix(fs.mount, nodes[i].path)
    /\ \A k \in 1..3 : \A p \in hist[k].paths : IsPrefix(fs.mirror, p)

\* A Node two levels down, and a Remove through it.
C6_Witness ==
    /\ Latest.op = "Remove" /\ Latest.err = "OK"
    /\ Len(nodes[Latest.n].path) = Len(fs.mount) + 1
    /\ \E p \in Latest.paths : Len(p) = Len(fs.mirror) + 2

\* The part of path p past the mount root.
RelTo(mount, p) == SubSeq(p, Len(mount) + 1, Len(p))

CallName(c) == IF c.op = "Lookup" THEN c.in.name ELSE c.in.req.name

\* C5: for a Node whose path is the mount root or below it, mirrorPath is the
\* mirror root followed by the path relative to the mount root, whatever the
\* two roots are; for the root Node it is the mirror root itself; and that is
\* the path Lookup, Mkdir and Create hand to the host.
C5_MirrorPath ==
    /\ \A i \in NodeIds :
          IsPrefix(fs.mount, nodes[i].path) =>
              mirrorPath(nodes[i]) = fs.mirror \o RelTo(fs.mount, nodes[i].path)
    /\ mirrorPath(nodes[1]) = fs.mirror
    /\ Latest.op \in {"Lookup", "Mkdir", "Create"} =>
          Latest.paths = {fs.mirror \o RelTo(fs.mount, nodes[Latest.n].path)
                              \o <<CallName(Latest)>>}

\* A file created two levels below a mount root that is longer than the mirror root.
C5_Witness ==
    /\ Latest.op = "Create" /\ Latest.err = "OK"
    /\ Len(fs.mount) > Len(fs.mirror)
    /\ Len(nodes[Latest.out.node].path) = Len(fs.mount) + 2
    /\ Exists(host, mirrorPath(nodes[Latest.out.node]))

\* What a Read and a Write through descriptor fd would give.
Use(h, fd) ==
    [read |-> ReadAt(h, fd, 0, 2, "OK"),
     write |-> [f \in {"err", "n"} |-> WriteAt(h, fd, 0, <<7>>, 0, "OK", "offset")[f]]]

Usable(h, fd) == Use(h, fd).read.err \in {"OK", "EOF"} /\ Use(h, fd).write.err = "OK"

\* C4: in every interleaving of concurrent Creates and lazy opens, two Nodes
\* never hold the same descriptor, a Create that succeeds returns a new Node with
\* an open descriptor of its own, and a step that closes or clears the handle of
\* one Node leaves every other Node, and what a Read and a Write through its
\* descriptor give, as they were.
C4_IndependentDescriptors ==
    /\ [](/\ \A i, j \in NodeIds :
                i # j /\ nodes[i].file # 0 => nodes[i].file # nodes[j].file
          /\ Latest.op = "Create" /\ Latest.err = "OK" =>
                /\ Latest.out.node \in NodeIds
                /\ nodes[Latest.out.node].file # 0)
    /\ [][\A i \in NodeIds :
             /\ nodes[i].file # 0
             /\ \/ nodes'[i].file = 0
                \/ nodes[i].file \in DOMAIN host.fds \ DOMAIN host'.fds
             => \A j \in NodeIds \ {i} :
                   /\ nodes'[j] = nodes[j]
                   /\ Use(host', nodes[j].file) = Use(host, nodes[j].file)]_vars

\* Two Nodes of one path opened while the other's call was in flight; one has
\* been released, the other is in the middle of its call and its descriptor
\* is open and usable.
C4_Witness ==
    /\ Latest.op = "Release" /\ nodes[Latest.n].file = 0
    /\ hist[2].op = "Write" /\ hist[2].n = Latest.n /\ hist[2].err = "OK"
    /\ \E k \in DOMAIN tasks :
          /\ tasks[k].pc = "data" /\ tasks[k].op = "Write"
          /\ tasks[k].n # Latest.n
          /\ nodes[tasks[k].n].path = nodes[Latest.n].path
          /\ Usable(host, nodes[tasks[k].n].file)

\* The last three calls are the Create of a new file, a Write at offset 0 on the
\* Node it returned, and a Read of as many bytes at offset 0 on that Node.
RoundTrip ==
    /\ hist[1].op = "Create" /\ hist[1].err = "OK" /\ DOMAIN hist[1].pre = {}
    /\ hist[2].op = "Write" /\ hist[2].n = hist[1].out.node
    /\ hist[2].in.req.offset = 0
    /\ hist[3].op = "Read" /\ hist[3].n = hist[2].n
    /\ hist[3].in.req.offset = 0
    /\ hist[3].in.req.size = Len(hist[2].in.req.data)

RoundTripOk ==
    /\ hist[2].err = "OK" /\ hist[2].out.size = Len(hist[2].in.req.data)
    /\ hist[3].err = "OK" /\ hist[3].out.data = hist[2].in.req.data

\* C7 (as amended): after the Create of a new file with flags that open it for
\* reading and writing and not for appending, a Write of D at offset 0 on the
\* returned Node reports len(D) and a Read of len(D) bytes at offset 0 on that
\* Node returns exactly D.
C7_RoundTrip ==
    /\ RoundTrip
    /\ Acc(hist[1].in.req.flags) = "rw" /\ "APPEND" \notin hist[1].in.req.flags
    => RoundTripOk

C7_Witness ==
    /\ RoundTrip /\ Acc(hist[1].in.req.flags) = "rw"
    /\ hist[2].out.size = 2 /\ hist[3].out.data = <<7, 8>>

\* C7 as stated: the round trip, whatever the flags of the Create.
C7_RoundTripAnyFlags == RoundTrip => RoundTripOk

\* Call c is a successful Setattr with a size, on a file at least that long.
Truncation(c) ==
    /\ c.op = "Setattr" /\ c.err = "OK" /\ "size" \in c.in.req.valid
    /\ ~c.out.attr.dir
    /\ \A p \in c.paths : p \in DOMAIN c.pre /\ Len(c.pre[p].data) >= c.in.req.size

\* The content before call c.
Before(c) == c.pre[CHOOSE p \in c.paths : TRUE].data

\* The Attr that follows a truncation reports the new size.
AttrAfterCut ==
    /\ Latest.op = "Attr" /\ Truncation(hist[2]) /\ Latest.paths = hist[2].paths
    => Latest.err = "OK" /\ Latest.out.attr.size = hist[2].in.req.size

\* A Read at offset 0 on the truncated Node, of at least the new size and at
\* most the old one.
ReadAfterCut ==
    /\ Latest.op = "Read" /\ Truncation(hist[2]) /\ Latest.n = hist[2].n
    /\ Latest.in.req.offset = 0
    /\ Latest.in.req.size >= hist[2].in.req.size
    /\ Latest.in.req.size <= Len(Before(hist[2]))

ReadAfterCutOk ==
    /\ Latest.err = "OK"
    /\ Latest.out.data = SubSeq(Before(hist[2]), 1, hist[2].in.req.size)

\* The Read found the handle Closed, or Open on a descriptor that allows reading.
Readable ==
    \/ Latest.paths # {}
    \/ /\ nodes[Latest.n].file \in DOMAIN host.fds
       /\ host.fds[nodes[Latest.n].file].acc # "w"

LiveFields == {"size", "uid", "gid", "dir", "perm", "mtime"}

\* C9: when Setattr returns successfully, the size, uid, gid, mode and mtime of
\* its response are those the mirror path has on the host after the call, which
\* are those an Attr called next reports.
C9_SetattrResponseIsLive ==
    Latest.op = "Setattr" /\ Latest.err = "OK" =>
        LET mp == mirrorPath(nodes[Latest.n])
            a == DoAttr(host, nodes, Latest.n, now, NoFault)
            got == Latest.out.attr
        IN  /\ Exists(host, mp)
            /\ got.size = Len(Inode(host, mp).data)
            /\ got.uid = Inode(host, mp).uid /\ got.gid = Inode(host, mp).gid
            /\ got.dir = IsDir(host, mp) /\ got.perm = Inode(host, mp).perm
            /\ got.mtime = Inode(host, mp).mtime
            /\ a.err = "OK"
            /\ \A f \in LiveFields : got[f] = a.out.attr[f]

\* A Setattr of the mode whose chmod the host refused: it succeeds, and the
\* mode in its response is not the one asked for.
C9_Witness ==
    /\ Latest.op = "Setattr" /\ Latest.err = "OK"
    /\ "mode" \in Latest.in.req.valid
    /\ Latest.in.flt["chmod"] # "OK"
    /\ Latest.out.attr.perm # Latest.in.req.perm

Renamed(c) == c.op = "Rename" /\ c.err = "OK"
Src(c) == Join(mirrorPath(nodes[c.n]), <<c.in.req.oldName>>)
Dst(c) == Join(mirrorPath(nodes[c.in.d]), <<c.in.req.newName>>)

\* The two names of Rename c were names of one file before it.
SameFile(c) == Dst(c) \in DOMAIN c.pre /\ c.pre[Dst(c)].ino = c.pre[Src(c)].ino

\* Lookup of the old name in the source directory, right after the Rename.
LookupOld ==
    /\ Latest.op = "Lookup" /\ Renamed(hist[2])
    /\ Latest.n = hist[2].n /\ Latest.in.name = hist[2].in.req.oldName

\* Lookup of the new name in the destination directory, right after the Rename:
\* it finds the file the old name had.
LookupNew ==
    /\ Latest.op = "Lookup" /\ Renamed(hist[2])
    /\ Latest.n = hist[2].in.d /\ Latest.in.name = hist[2].in.req.newName
    => /\ Latest.err = "OK"
       /\ Latest.paths = {Dst(hist[2])}
       /\ host.tree[Dst(hist[2])] = hist[2].pre[Src(hist[2])].ino
       /\ Inode(host, Dst(hist[2])).data = hist[2].pre[Src(hist[2])].data

\* A Read of the whole file through the Node the Lookup of the new name made
\* returns the content the old name had.
ReadNew ==
    /\ Renamed(hist[1]) /\ ~hist[1].pre[Src(hist[1])].dir
    /\ hist[2].op = "Lookup" /\ hist[2].err = "OK"
    /\ hist[2].n = hist[1].in.d /\ hist[2].in.name = hist[1].in.req.newName
    /\ Latest.op = "Read" /\ Latest.n = hist[2].out.node
    /\ Latest.in.req.offset = 0
    /\ Latest.in.req.size >= Len(hist[1].pre[Src(hist[1])].data)
    => Latest.err = "OK" /\ Latest.out.data = hist[1].pre[Src(hist[1])].data

\* C10 (as amended): after a successful Rename whose old and new names were
\* not names of one file (the same path, or two links to it), Lookup of the old
\* name in the source directory fails NotFound; after any successful Rename,
\* Lookup of the new name in the destination directory succeeds and finds the
\* file the old name had, with the content it had, whatever was there before.
C10_RenameMoves ==
    /\ LookupOld /\ ~SameFile(hist[2]) => Latest.err = "ENOENT"
    /\ LookupNew
    /\ ReadNew

\* The file a of the root moved over the file a of b, and read under its new name.
C10_Witness ==
    /\ Renamed(hist[1]) /\ hist[1].n # hist[1].in.d
    /\ Dst(hist[1]) \in DOMAIN hist[1].pre /\ ~SameFile(hist[1])
    /\ hist[1].pre[Dst(hist[1])].data # hist[1].pre[Src(hist[1])].data
    /\ hist[2].op = "Lookup" /\ hist[2].n = hist[1].in.d /\ hist[2].err = "OK"
    /\ Latest.op = "Read" /\ Latest.n = hist[2].out.node
    /\ Latest.out.data = hist[1].pre[Src(hist[1])].data
    /\ ~Exists(host, Src(hist[1]))

\* C10 as stated: Lookup of the old name fails after every successful Rename.
C10_RenameMovesAlways ==
    /\ LookupOld => Latest.err = "ENOENT"
    /\ LookupNew
    /\ ReadNew

\* The mirror path Lookup c checked.
Child(c) == Join(mirrorPath(nodes[c.n]), <<c.in.name>>)

\* C11: Lookup of a name the mirror directory does not have fails NotFound, and
\* Lookup returns a Node only if the stat of the child's mirror path succeeds,
\* so that the Node's mirror path exists.
C11_LookupChecksExistence ==
    Latest.op = "Lookup" =>
        /\ ~Exists(host, Child(Latest)) => Latest.err = "ENOENT"
        /\ Latest.err = "OK" =>
              /\ Stat(host, Child(Latest), Latest.in.flt["stat"]).err = "OK"
              /\ Exists(host, mirrorPath(nodes[Latest.out.node]))

\* The immediate entries of directory p on the host.
Entries(p) == {q \in DOMAIN host.tree : Len(q) = Len(p) + 1 /\ IsPrefix(p, q)}
Listing == Latest.op = "ReadDirAll" /\ Latest.err = "OK"
Listed == Latest.out.ents

\* C12: a successful ReadDirAll returns exactly one entry for each immediate
\* entry of the Node's mirror directory, with that entry's name and with type
\* Directory if the host entry is a directory and File otherwise; entries
\* nested deeper are not listed.
C12_ReadDirAllLists ==
    Listing =>
        /\ Len(Listed) = Cardinality(Entries(mirrorPath(nodes[Latest.n])))
        /\ \A q \in Entries(mirrorPath(nodes[Latest.n])) :
              \E k \in DOMAIN Listed :
                 /\ Listed[k].name = q[Len(q)]
                 /\ Listed[k].type = IF IsDir(host, q) THEN "DT_Dir" ELSE "DT_File"

\* The root is listed: a file, a directory, and below it an entry not listed.
C12_Witness ==
    /\ Listing
    /\ Latest.n = 1
    /\ \E j, k \in DOMAIN Listed : Listed[j].type = "DT_Dir" /\ Listed[k].type = "DT_File"
    /\ \E q \in DOMAIN host.tree : Len(q) = Len(mirrorPath(nodes[1])) + 2

Mutations == {"Write", "Setattr", "Rename", "Remove", "Outside"}

\* C13: Attr never caches.  Whatever was called before it (a Write, a Setattr, a
\* Rename, a Remove, a change made on the host behind the mount, an earlier
\* Attr), an Attr on any Node of the path reports the size, mode and mtime the
\* mirror path has on the host now, and NotFound if it has none.
C13_AttrNeverCaches ==
    Latest.op = "Attr" =>
        LET mp == mirrorPath(nodes[Latest.n])
            got == Latest.out.attr
        IN  IF Exists(host, mp)
            THEN /\ Latest.err = "OK"
                 /\ got.size = Len(Inode(host, mp).data)
                 /\ got.perm = Inode(host, mp).perm
                 /\ got.mtime = Inode(host, mp).mtime
                 /\ got.dir = IsDir(host, mp)
            ELSE Latest.err = "ENOENT"

\* An Attr on one Node of the file, a completed mutation of the file through
\* the other Node or on the host, and the next Attr on the first Node, which
\* reports another size and mtime than the first did.
C13_Witness ==
    /\ hist[1].op = "Attr" /\ hist[1].n = 3 /\ hist[1].err = "OK"
    /\ hist[2].op \in Mutations /\ hist[2].n # 3 /\ hist[2].err = "OK"
    /\ hist[3].op = "Attr" /\ hist[3].n = 3 /\ hist[3].err = "OK"
    /\ hist[3].out.attr.size # hist[1].out.attr.size
    /\ hist[3].out.attr.mtime # hist[1].out.attr.mtime

\* The call that returns in this step, and the mirror path of its Node.
Done == hist'[3]
Target == mirrorPath(nodes[Done.n])
SetattrStep == now' = now + 1 /\ Done.op = "Setattr"

\* The only call the host refuses is c.
OnlyFails(flt, c) == flt[c] # "OK" /\ \A d \in Calls \ {c} : flt[d] = "OK"
Owner == {"uid", "gid"}
Times == {"atime", "atimenow", "mtime", "mtimenow"}

\* C14: a chmod failure during Setattr is absorbed: Setattr goes on, applies the
\* times and returns the live attributes with no error.  A chown failure is not:
\* Setattr returns it and applies neither the mode nor the times.
C14_ChmodAbsorbedChownReturned ==
    [][SetattrStep =>
        LET req == Done.in.req
            flt == Done.in.flt
            old == Inode(host, Target)
            new == Inode(host', Target)
        IN  /\ "mode" \in req.valid /\ OnlyFails(flt, "chmod") =>
                 /\ Done.err = "OK"
                 /\ new.perm = old.perm
                 /\ Done.out.attr.perm = new.perm
                 /\ Done.out.attr.mtime = new.mtime
                 /\ "mtime" \in req.valid => new.mtime = req.mtime
            /\ Owner \cap req.valid # {} /\ OnlyFails(flt, "chown") =>
                 /\ Done.err = errno(flt["chown"])
                 /\ new.uid = old.uid /\ new.gid = old.gid
                 /\ new.perm = old.perm
                 /\ Times \cap req.valid # {} => new.mtime = old.mtime
    ]_vars

\* Both happened: a Setattr whose chmod was refused returned the new mtime, and
\* one whose chown was refused returned the error and left the mode it was
\* asked to change.
C14_Witness ==
    /\ hist[2].op = "Setattr" /\ hist[2].err = "OK"
    /\ OnlyFails(hist[2].in.flt, "chmod")
    /\ hist[2].out.attr.mtime = hist[2].in.req.mtime
    /\ hist[2].out.attr.perm # hist[2].in.req.perm
    /\ Latest.op = "Setattr" /\ Latest.err = "EPERM"
    /\ OnlyFails(Latest.in.flt, "chown")
    /\ "mode" \in Latest.in.req.valid
    /\ Inode(host, mirrorPath(nodes[Latest.n])).perm # Latest.in.req.perm

\* C14 as stated: chown and chmod failures alike are absorbed, Setattr goes on
\* and returns the final Attr.
C14_OwnerAndModeAbsorbed ==
    [][SetattrStep /\ (OnlyFails(Done.in.flt, "chown") \/ OnlyFails(Done.in.flt, "chmod")) =>
            /\ Done.err = "OK"
            /\ Done.out.attr.perm = Inode(host', Target).perm
            /\ Done.out.attr.uid = Inode(host', Target).uid
    ]_vars

\* The orders in which the four changes of a Setattr could be made.
Orders ==
    {o \in [1..4 -> {"size", "owner", "mode", "times"}] :
        \A i, j \in 1..4 : i # j => o[i] # o[j]}

\* The host after the changes of the call Done made in the order o.
InOrder(o) ==
    Changes(o, host, Target, Done.in.req, Stat(host, Target, "OK"), now', Done.in.flt).h

\* The call Done got past its first stat, on a file or directory that exists.
Began == SetattrStep /\ Done.in.flt["stat"] = "OK" /\ Exists(host, Target)

\* The host refused the truncate or the chown the call Done asked for.
Stopped ==
    \/ /\ "size" \in Done.in.req.valid /\ ~IsDir(host, Target)
       /\ Done.in.flt["truncate"] # "OK"
    \/ Owner \cap Done.in.req.valid # {} /\ Done.in.flt["chown"] # "OK"

\* Each field of the call Done that is present, and whose own call the host did
\* not refuse, has been applied.
EachApplied ==
    LET req == Done.in.req
        flt == Done.in.flt
        old == Inode(host, Target)
        new == Inode(host', Target)
    IN  /\ "size" \in req.valid /\ ~IsDir(host, Target) /\ flt["truncate"] = "OK" =>
              Len(new.data) = req.size
        /\ "uid" \in req.valid /\ flt["chown"] = "OK" => new.uid = req.uid
        /\ "gid" \in req.valid /\ flt["chown"] = "OK" => new.gid = req.gid
        /\ "mode" \in req.valid /\ flt["chmod"] = "OK" => new.perm = req.perm
        /\ Times \cap req.valid # {} /\ flt["chtimes"] = "OK" =>
              /\ new.atime = IF "atimenow" \in req.valid THEN now'
                             ELSE IF "atime" \in req.valid THEN req.atime ELSE old.atime
              /\ new.mtime = IF "mtimenow" \in req.valid THEN now'
                             ELSE IF "mtime" \in req.valid THEN req.mtime ELSE old.mtime

\* C15: Setattr makes the changes of the present fields in the order size,
\* owner, mode, times.  When truncate or chown fails the later fields are not
\* applied; otherwise every present field is applied whatever other fields are
\* present and whether or not chmod or chtimes failed.
C15_FieldsInFixedOrder ==
    [][Began =>
        /\ host' = InOrder(SetattrOrder)
        /\ ~Stopped => EachApplied
        /\ Stopped =>
              /\ Done.err # "OK"
              /\ Inode(host', Target).perm = Inode(host, Target).perm
              /\ Inode(host', Target).atime = Inode(host, Target).atime
    ]_vars

\* A Setattr of size, owner, mode and times at once on the file: all applied.
C15_Witness ==
    /\ Latest.op = "Setattr" /\ Latest.err = "OK" /\ Latest.n = 2
    /\ {"size", "uid", "gid", "mode", "atime", "mtime"} \subseteq Latest.in.req.valid
    /\ LET i == Inode(host, mirrorPath(nodes[2]))
           req == Latest.in.req
       IN  /\ Len(i.data) = req.size /\ i.uid = req.uid /\ i.gid = req.gid
           /\ i.perm = req.perm /\ i.atime = req.atime /\ i.mtime = req.mtime

\* C15 as stated: every present field is applied whatever the outcome of the
\* others, and the host ends the same for any order of the changes.
C15_AnyOrder ==
    [][Began => EachApplied /\ \A o \in Orders : host' = InOrder(o)]_vars

\* The error the stat of the Attr call c met.
StatErr(c) == Stat(host, mirrorPath(nodes[c.n]), c.in.flt["stat"]).err

\* C16: Attr fails with NotFound if and only if its stat reports that the
\* mirror path does not exist, with PermissionDenied if and only if the stat is
\* denied, and with IOError for every other stat failure; on any failure the
\* output attributes are left as they were.
C16_AttrErrors ==
    Latest.op = "Attr" =>
        /\ Latest.err = "OK" <=> StatErr(Latest) = "OK"
        /\ Latest.err = "ENOENT" <=> StatErr(Latest) = "ENOENT"
        /\ Latest.err = "EPERM" <=> StatErr(Latest) \in {"EACCES", "EPERM"}
        /\ Latest.err \in {"OK", "ENOENT", "EPERM", "EIO"}
        /\ Latest.err # "OK" => Latest.out.attr = ZeroAttr

\* The file was removed; an Attr on its Node failed NotFound and an Attr whose
\* stat was denied failed PermissionDenied, both leaving the attributes alone.
C16_Witness ==
    /\ hist[1].op = "Remove" /\ hist[1].err = "OK"
    /\ hist[2].op = "Attr" /\ hist[2].n = 2 /\ hist[2].err = "ENOENT"
    /\ hist[2].out.attr = ZeroAttr
    /\ Latest.op = "Attr" /\ Latest.in.flt["stat"] = "EACCES" /\ Latest.err = "EPERM"
    /\ Latest.out.attr = ZeroAttr

\* C16 as stated: NotFound when the path does not exist, IOError for every
\* other stat failure, a denied stat among them.
C16_NotFoundOrIOError ==
    Latest.op = "Attr" =>
        /\ Latest.err = "ENOENT" <=> ~Exists(host, mirrorPath(nodes[Latest.n]))
        /\ Latest.err \in {"OK", "ENOENT", "EIO"}
        /\ Latest.err # "OK" => Latest.out.attr = ZeroAttr

\* The errors errno makes.
ErrnoKinds == {"ENOENT", "EEXIST", "EPERM", "EIO"}

\* C17: a Rename whose destination is not a Node of this layer fails with an
\* error that is none of NotFound, AlreadyExists, PermissionDenied and IOError,
\* and renames nothing: the host and the Nodes are as before.
C17_ForeignDestination ==
    [][now' = now + 1 /\ Done.op = "Rename" /\ Done.in.d = 0 =>
        /\ Done.err \notin ErrnoKinds \cup {"OK"}
        /\ host' = host
        /\ nodes' = nodes
    ]_vars

\* Such a Rename was refused although the old name is there and the new is free.
C17_Witness ==
    /\ Latest.op = "Rename" /\ Latest.in.d = 0 /\ Latest.err = "ENOTNODE"
    /\ Exists(host, Join(mirrorPath(nodes[Latest.n]), <<Latest.in.req.oldName>>))
    /\ ~Exists(host, Join(mirrorPath(nodes[Latest.n]), <<Latest.in.req.newName>>))

MkdirStep == now' = now + 1 /\ Done.op = "Mkdir"

\* The mirror directory the Mkdir call Done is to make, and whether this step
\* made it.
NewDir == Join(Target, <<Done.in.req.name>>)
Made == ~Exists(host, NewDir) /\ IsDir(host', NewDir)

\* C18: Mkdir returns a child Node if and only if the mirror directory was made,
\* whether or not the chown after it succeeded.  When the directory is not made
\* Mkdir fails with the kind errno gives the host's error (AlreadyExists,
\* PermissionDenied, NotFound when the parent's mirror directory is gone,
\* IOError), returns no Node and leaves the mirror tree as it was.
C18_MkdirNodeIffMade ==
    [][MkdirStep =>
        /\ Done.out.node # 0 <=> Made
        /\ Made <=> Done.err = "OK"
        /\ Made =>
              /\ Done.out.node = Len(nodes) + 1
              /\ nodes' = Append(nodes, makeNode(Join(nodes[Done.n].path,
                                                      <<Done.in.req.name>>)))
              /\ Inode(host', NewDir).perm = Done.in.req.perm
        /\ ~Made =>
              /\ Done.err \in ErrnoKinds
              /\ Done.err = "EEXIST" <=> Exists(host, NewDir) /\ Done.in.flt["mkdir"] = "OK"
              /\ Done.err = "ENOENT" <=>
                    ~Exists(host, Target) /\ Done.in.flt["mkdir"] = "OK"
              /\ host' = host
              /\ nodes' = nodes
    ]_vars

\* A Mkdir of a name that exists failed AlreadyExists; the next made its
\* directory and returned the Node though the chown was refused.
C18_Witness ==
    /\ hist[2].op = "Mkdir" /\ hist[2].err = "EEXIST" /\ hist[2].out.node = 0
    /\ Latest.op = "Mkdir" /\ Latest.err = "OK" /\ Latest.in.flt["chown"] # "OK"
    /\ Latest.out.node = Len(nodes)
    /\ IsDir(host, mirrorPath(nodes[Latest.out.node]))
    /\ Inode(host, mirrorPath(nodes[Latest.out.node])).uid # Latest.in.req.uid

\* C18 as stated: when the directory is not made, the failure is AlreadyExists
\* or PermissionDenied.
C18_MkdirTwoFailures ==
    [][MkdirStep =>
        /\ Done.out.node # 0 <=> Made
        /\ ~Made => Done.err \in {"EEXIST", "EPERM"} /\ host' = host /\ nodes' = nodes
    ]_vars

\* The request req without the fields Setattr does not support.
Supported(req) == [req EXCEPT !.valid = @ \ Unsupported]

\* C19: a Setattr that names only unsupported fields (handle, lock owner, backup
\* time, change time, creation time, flags) leaves the host as it is and
\* returns what an Attr would; unsupported fields added to a request change
\* nothing of its outcome: error, response, host and Nodes are those of the
\* request without them.
C19_UnsupportedFieldsIgnored ==
    [][SetattrStep =>
        LET with == Done.in.req
            plain == DoSetattr(host, nodes, Done.n, Supported(with), now', Done.in.flt)
        IN  /\ Done.err = plain.err
            /\ Done.out = plain.out
            /\ host' = plain.h
            /\ nodes' = plain.ns
            /\ with.valid \subseteq Unsupported =>
                  /\ host' = host
                  /\ Done.err = DoAttr(host, nodes, Done.n, now', Done.in.flt).err
                  /\ Done.in.flt["stat"] = "OK" /\ Exists(host, Target) =>
                        /\ Done.err = "OK"
                        /\ Done.out.attr.size = Len(Inode(host, Target).data)
                        /\ Done.out.attr.perm = Inode(host, Target).perm
    ]_vars

\* A Setattr of unsupported fields only returned the attributes of the file
\* after one that named size, mode, handle and flags had cut and changed it.
C19_Witness ==
    /\ hist[2].op = "Setattr" /\ hist[2].err = "OK" /\ hist[2].n = 2
    /\ {"size", "mode", "handle", "flags"} \subseteq hist[2].in.req.valid
    /\ hist[2].out.attr.size = hist[2].in.req.size
    /\ Latest.op = "Setattr" /\ Latest.err = "OK" /\ Latest.n = 2
    /\ Latest.in.req.valid # {} /\ Latest.in.req.valid \subseteq Unsupported
    /\ Latest.out.attr.size = hist[2].out.attr.size
    /\ Latest.out.attr.perm = hist[2].in.req.perm

\* Done is a Flush, or an Fsync on a Node whose handle is Closed.
NoOpStep ==
    /\ now' = now + 1
    /\ \/ Done.op = "Flush"
       \/ Done.op = "Fsync" /\ nodes[Done.n].file = 0

\* C20: Fsync on a Closed Node and Flush on any Node succeed and do nothing: no
\* descriptor is opened or closed, every handle is what it was, and the host's
\* tree and content are unchanged.
C20_FsyncFlushNoOps ==
    [][NoOpStep =>
        /\ Done.err = "OK"
        /\ nodes' = nodes
        /\ host'.fds = host.fds
        /\ host'.tree = host.tree
        /\ host'.inode = host.inode
    ]_vars

\* An Fsync on a Closed Node, then a Flush on a Node whose handle is Open: the
\* first is still Closed and the second still Open.
C20_Witness ==
    /\ hist[2].op = "Fsync" /\ hist[2].err = "OK" /\ nodes[hist[2].n].file = 0
    /\ Latest.op = "Flush" /\ Latest.err = "OK"
    /\ nodes[Latest.n].file # 0
    /\ nodes[Latest.n].file \in DOMAIN host.fds

ReadStep == now' = now + 1 /\ Done.op = "Read"

\* The content of the file the Read call Done reads: that of its descriptor,
\* or with a Closed handle that of the mirror path.
Content ==
    IF nodes[Done.n].file # 0
    THEN host.inode[host.fds[nodes[Done.n].file].ino].data
    ELSE Inode(host, Target).data

\* The bytes offset .. min(offset + size, length) of the content.
Range == SubSeq(Content, Done.in.req.offset + 1,
                Min(Done.in.req.offset + Done.in.req.size, Len(Content)))

\* The handle of the call's Node is bound to a descriptor that cannot read.
WriteOnly ==
    /\ nodes[Done.n].file # 0
    /\ host.fds[nodes[Done.n].file].acc = "w"

\* The Read call Done has a file to read: an open descriptor, or a mirror file.
HasFile ==
    \/ nodes[Done.n].file \in DOMAIN host.fds
    \/ nodes[Done.n].file = 0 /\ Exists(host, Target) /\ ~IsDir(host, Target)

\* C21: Read(offset, size) of a file of length n through a Node whose handle is
\* Closed or bound to a descriptor open for reading succeeds and returns the
\* bytes content[offset .. min(offset + size, n)): size bytes inside the file,
\* fewer across its end, none beyond it; end of file is no error.  Through a
\* handle bound write-only Read fails with IOError.
C21_ReadRange ==
    [][ReadStep /\ HasFile =>
        IF WriteOnly THEN Done.err = "EIO"
        ELSE /\ Done.err = "OK"
             /\ Done.out.data = Range
             /\ Len(Done.out.data) <= Done.in.req.size
    ]_vars

\* Three Reads of the file: all the bytes asked for, fewer across the end of
\* the file, none beyond it.
C21_Witness ==
    /\ \A k \in 1..3 : hist[k].op = "Read" /\ hist[k].err = "OK" /\ hist[k].n = 2
    /\ Len(hist[1].out.data) = hist[1].in.req.size
    /\ Len(hist[2].out.data) \in 1..(hist[2].in.req.size - 1)
    /\ Len(hist[3].out.data) = 0 /\ hist[3].in.req.size > 0
    /\ hist[3].in.req.offset >= Len(Inode(host, mirrorPath(nodes[2])).data)

\* C21 as stated: every Read of a file succeeds with the bytes of the range.
C21_ReadAlwaysSucceeds ==
    [][ReadStep /\ HasFile => Done.err = "OK" /\ Done.out.data = Range]_vars

\* The call c returned a Node it made.
Gave(c) == c.op \in {"Lookup", "Mkdir", "Create"} /\ c.err = "OK"

\* The latest call returned the newest Node of all, and its handle slot is its
\* own: empty, or after Create a descriptor no other Node has.
Newest ==
    /\ Latest.out.node = Len(nodes)
    /\ Latest.op # "Create" => nodes[Len(nodes)].file = 0
    /\ Latest.op = "Create" =>
          /\ nodes[Len(nodes)].file \in DOMAIN host.fds
          /\ \A j \in 1..(Len(nodes) - 1) : nodes[j].file # nodes[Len(nodes)].file

\* C22: each successful Lookup, Mkdir and Create returns a Node made for that
\* call: distinct from the root Node and from every Node returned before, with
\* its own handle slot.  Root returns the one Node NewFS made, every time.
C22_FreshNodes ==
    /\ \A j, k \in 1..3 :
          j < k /\ Gave(hist[j]) /\ Gave(hist[k]) => hist[j].out.node < hist[k].out.node
    /\ \A k \in 1..3 : Gave(hist[k]) => hist[k].out.node \in 2..Len(nodes)
    /\ \A k \in 1..3 : hist[k].op = "Root" => hist[k].out.node = 1
    /\ Gave(Latest) => Newest

\* The root was asked for twice, and the file a looked up twice: one Node for
\* the root, two Nodes for the one path of a.
C22_Witness ==
    /\ hist[1].op = "Root" /\ hist[1].out.node = 1
    /\ hist[2].op = "Lookup" /\ hist[3].op = "Lookup"
    /\ Gave(hist[2]) /\ Gave(hist[3])
    /\ hist[2].out.node # hist[3].out.node
    /\ nodes[hist[2].out.node].path = nodes[hist[3].out.node].path

\* C22 as stated: Root too returns a Node no earlier call returned.
C22_FreshNodesAndRoot ==
    \A j, k \in 1..3 :
        /\ j < k
        /\ Gave(hist[j]) \/ hist[j].op = "Root"
        /\ Gave(hist[k]) \/ hist[k].op = "Root"
        => hist[j].out.node # hist[k].out.node

\* The protocol code of the host error e: the first of the three kinds it is
\* of, and the generic code if it is of none.
Kind(e) ==
    CASE e \in {"EEXIST", "ENOTEMPTY"} -> "EEXIST"
      [] e = "ENOENT" -> "ENOENT"
      [] e \in {"EACCES", "EPERM"} -> "EPERM"
      [] OTHER -> "EIO"

\* The handlers whose errors all come from errno.
Translating ==
    {"Attr", "Setattr", "ReadDirAll", "Mkdir", "Create", "Remove", "Read", "Write", "Fsync"}

\* The calls a handler makes before any other, so that the host's failure of
\* one of them is the error the handler meets.
FirstCall ==
    [Attr |-> "stat", ReadDirAll |-> "readdir", Mkdir |-> "mkdir", Create |-> "open",
     Remove |-> "remove"]

\* C23: errno maps every host error to exactly one of four codes: EEXIST for
\* already-exists, else ENOENT for not-exist, else EPERM for permission, else
\* the generic EIO.  Every error Attr, Setattr, ReadDirAll, Mkdir, Create,
\* Remove, Read, Write and Fsync return is one of the four, and is the code of
\* the host error the handler met.
C23_ErrorTranslation ==
    [][now' = now + 1 /\ Done.op \in Translating =>
        /\ \A e \in HostErrors : errno(e) = Kind(e)
        /\ Done.err \in {"OK"} \cup ErrnoKinds
        /\ Done.err # "OK" => \E e \in HostErrors : Done.err = Kind(e)
        /\ Done.op \in DOMAIN FirstCall /\ Done.in.flt[FirstCall[Done.op]] # "OK" =>
              Done.err = Kind(Done.in.flt[FirstCall[Done.op]])
        /\ Done.op = "Fsync" /\ nodes[2].file \in DOMAIN host.fds =>
              Done.err = Kind(Done.in.flt["sync"])
    ]_vars

\* Three handlers failed, with three different codes, the generic one last.
C23_Witness ==
    /\ \A k \in 1..3 : hist[k].op \in Translating /\ hist[k].err \in ErrnoKinds
    /\ Cardinality({hist[k].err : k \in 1..3}) = 3
    /\ Cardinality({hist[k].op : k \in 1..3}) = 3
    /\ Latest.err = "EIO"

\* The descriptors the host has open, and those bound to the handle of a Node.
OpenFds == DOMAIN host.fds
BoundFds == {nodes[j].file : j \in NodeIds} \ {0}

\* C24: no descriptor leak.  Whenever no call is in flight, the descriptors
\* open on the host are exactly those bound to the handle of some Node, also
\* after two Writes ran concurrently on one Node whose handle was Closed and
\* both opened the mirror file.
C24_NoDescriptorLeak == tasks = <<>> => OpenFds = BoundFds

\* A Read or Write makes its host read or write in this step: it found the
\* handle Open when it started, or it resumes after its lazy open.
UsesHandle ==
    /\ hist' # hist
    /\ Done.op \in {"Read", "Write"}
    /\ \/ now' = now + 1 /\ nodes[Done.n].file # 0
       \/ \E k \in DOMAIN tasks : tasks[k].pc = "data" /\ tasks' = Drop(tasks, k)

\* C25: no use after close.  In every interleaving of a Read or Write with a
\* Release on the same Node, the handle is bound to a descriptor that is open
\* on the host at the moment the Read or Write makes its host read or write.
C25_NoUseAfterClose ==
    [][UsesHandle => nodes[Done.n].file \in OpenFds]_vars

\* The host fails the stat or the open of the call Done, and with what.
OpenFault ==
    IF Done.in.flt["stat"] # "OK" /\ Done.op # "Create"
    THEN Done.in.flt["stat"] ELSE Done.in.flt["open"]

\* The call Done is a Read or Write on a Closed Node whose lazy open fails.
LazyOpenFails ==
    /\ now' = now + 1
    /\ Done.op \in {"Read", "Write"}
    /\ nodes[Done.n].file = 0
    /\ OpenFault # "OK"

\* The call Done is a Create whose open fails.
CreateFails == now' = now + 1 /\ Done.op = "Create" /\ OpenFault # "OK"

\* C26: a failed open leaves no handle behind.  A Read or Write on a Closed
\* Node whose stat or open fails returns the translated error, leaves the
\* handle Closed and reads or writes nothing; a Create whose open fails returns
\* the translated error and no Node, and no descriptor is left open.
C26_FailedOpenLeavesNothing ==
    [][LazyOpenFails \/ CreateFails =>
        /\ Done.err = Kind(OpenFault)
        /\ nodes' = nodes
        /\ host' = host
        /\ OpenFds' = BoundFds'
        /\ Done.op = "Read" => Done.out.data = <<>>
        /\ Done.op = "Write" => Done.out.size = 0
        /\ Done.op = "Create" => Done.out.node = 0
    ]_vars

\* A Write and then a Create whose opens the host refused: no Node was made,
\* the Node of the file is still Closed and no descriptor is open.
C26_Witness ==
    /\ hist[2].op = "Write" /\ hist[2].in.flt["open"] # "OK" /\ hist[2].err = "EPERM"
    /\ Latest.op = "Create" /\ Latest.in.flt["open"] # "OK" /\ Latest.err = "EEXIST"
    /\ Latest.out.node = 0
    /\ nodes[2].file = 0
    /\ Len(nodes) = 3
    /\ OpenFds = {}

====
